---- MODULE Spec2Model ----
(***************************************************************************)
(* Indexing-and-retrieval pipeline of the RAG chatbot.                     *)
(*                                                                         *)
(*   Spec       upload -> index_document_task -> index_document, with the  *)
(*              task runner's retries and at-least-once deliveries, the    *)
(*              relational store and the object store.                     *)
(*   QuerySpec  RAGQueryService.query over a chunk table drawn from a      *)
(*              bounded set, with its access resolution, retrieval,        *)
(*              generation fallback and audit writes.                      *)
(*   ModelSpec  threads making embedding and generation calls against the  *)
(*              lazily loaded models: EmbeddingService.load with its       *)
(*              on-disk cache, LLMService.load_model and generate_answer.  *)
(***************************************************************************)
EXTENDS Integers, Sequences, FiniteSets, TLC

\* ------------------------------------------------------------------------
\* Bounds
\* ------------------------------------------------------------------------
MaxChunks == 2
MaxDup == 1
NChunks == 2
MaxTextLen == 3
MaxChunkSize == 3
MaxSegments == 4
MaxParts == 3
MaxChars == 2
MaxBudget == 45

\* ------------------------------------------------------------------------
\* Program constants
\* ------------------------------------------------------------------------
max_retries == 3

\* Retrieval settings.  The service reads them from the Django settings; the
\* values here are on the model's scale (similarities 0..2, one labelled chunk
\* text is one unit of length).
TOP_K == 1
SIMILARITY_THRESHOLD == 1
MAX_CONTEXT_LENGTH == 1

PERMANENT_FAILURE_PREFIX == "PERMANENT_FAILURE:"

SecurityLevel == {"LOW", "MID", "HIGH", "VERY_HIGH"}
Status == {"PENDING", "PROCESSING", "INDEXED", "FAILED"}

\* Tier of the uploaded document in Spec (the tier is only copied around there).
UploadTiers == {"HIGH"}

VARIABLES
    doc,        \* the Document row (exists = FALSE before the upload commits)
    chunkRows,  \* DocumentChunk rows of the document
    blob,       \* the document's object in the object store
    content,    \* number of chunks the stored file yields when processed
    queue,      \* task runner: pending index_document_task messages per retry count
    dups,       \* duplicate deliveries made so far
    workers,    \* running executions of index_document_task
    corpus,     \* DocumentChunk table as seen by a query, with similarity to it
    history,    \* QueryHistory rows
    lastQuery,  \* the call of query made: its inputs, resolved access and outcome
    embedder,   \* EmbeddingService._tokenizer and _model
    cacheDir,   \* files of ONNX_CACHE_DIR
    llmRegistry, \* LLMService TOKENIZER_, MODEL_ and PIPELINE_REGISTRY entry of the model
    threads,    \* threads calling the embedding and generation services
    chunker,    \* a ChunkingService and the call of chunk_text made on it
    extractive, \* a call of generate_answer on a context text, and its record
    builder,    \* a RAGQueryService and the call of _build_context made on it
    attempt,    \* one call of index_document or of the task's except block, step by step
    request     \* one upload request in perform_create, step by step

indexVars == <<doc, chunkRows, blob, content, queue, dups, workers>>
queryVars == <<corpus, history, lastQuery>>
modelVars == <<embedder, cacheDir, llmRegistry, threads>>
chunkVars == <<chunker>>
extractVars == <<extractive>>
contextVars == <<builder>>
\* The calls of single functions, each with a specification of its own.
detailVars == <<attempt, request>>
callVars == <<chunkVars, extractVars, contextVars, detailVars>>
vars == <<doc, chunkRows, blob, content, queue, dups, workers,
          corpus, history, lastQuery, embedder, cacheDir, llmRegistry, threads,
          chunker, extractive, builder, attempt, request>>

\* What the indexing steps, and what a query call, leave alone.
notIndexVars == <<queryVars, modelVars, callVars>>
notQueryVars == <<indexVars, modelVars, callVars>>

\* ------------------------------------------------------------------------
\* Exceptions: a type and a message; str(exc) is the message.
\* ------------------------------------------------------------------------
NoExc == [type |-> "", msg |-> ""]
Exc(t, m) == [type |-> t, msg |-> m]
Str(exc) == exc.msg

S3Error == Exc("S3Error", "download failed")
ChunkConfigError == Exc("ValueError", "chunk_overlap must be smaller than chunk_size")
ExtractError == Exc("Exception", "extraction failed")
ZeroChunksError == Exc("ValueError", "produced zero chunks")
InferenceError == Exc("Exception", "inference failed")
MismatchError == Exc("ValueError", "Embedding count mismatch")
DatabaseError == Exc("DatabaseError", "database write failed")
RowInsertError == Exc("DatabaseError", "chunk insert failed")
IntegrityError == Exc("IntegrityError", "duplicate key (document, chunk_index)")

\* ------------------------------------------------------------------------
\* Models
\* ------------------------------------------------------------------------
\* documents/models.py Document: the columns index_document and the task touch.
NoDocument ==
    [exists |-> FALSE, status |-> "PENDING", chunk_count |-> 0,
     error_message |-> <<>>, security_level |-> "LOW"]

NewDocument(level) ==
    [exists |-> TRUE, status |-> "PENDING", chunk_count |-> 0,
     error_message |-> <<>>, security_level |-> level]

\* documents/models.py DocumentChunk, for the one document.
NewChunk(index, level) ==
    [chunk_index |-> index, security_level |-> level, is_active |-> TRUE]

ChunkIndexes(rows) == {r.chunk_index : r \in rows}

\* ------------------------------------------------------------------------
\* Task runner state
\* ------------------------------------------------------------------------
Retries == 0..max_retries
\* The worker pool: two concurrent executions of the task.
WorkerIds == {1, 2}

Idle == [pc |-> "idle", retries |-> 0, exc |-> NoExc, chunks |-> 0,
         level |-> "LOW"]

EmptyQueue == [r \in Retries |-> 0]

IndexInit ==
    /\ doc = NoDocument
    /\ chunkRows = {}
    /\ blob = "absent"
    /\ content = 0
    /\ queue = EmptyQueue
    /\ dups = 0
    /\ workers = [w \in WorkerIds |-> Idle]

\* ------------------------------------------------------------------------
\* DocumentUploadView.perform_create
\* ------------------------------------------------------------------------
\* outcome "upload_failed": MinIOService.upload_file raises, the cleanup
\* deletes the (missing) object; "save_failed": serializer.save raises, the
\* cleanup deletes the uploaded object; "commit_failed": the commit that
\* transaction.atomic issues on return raises, outside the try block: the row
\* is rolled back, the hooks registered with on_commit are discarded and the
\* object stays in the store; "committed": the row is inserted and the
\* on_commit hook enqueues the task.  create never finds the attribute
\* document_id on the view, so its own call of delay is not executed.

\* perform_create calling index_document_task.delay directly, ahead of the
\* commit.
Upload_EnqueueBeforeCommit(level, n, outcome) ==
    /\ ~doc.exists
    /\ blob = "absent"
    /\ \/ /\ outcome \in {"upload_failed", "save_failed"}
          /\ UNCHANGED <<doc, blob, content, queue>>
       \/ /\ outcome = "commit_failed"
          /\ blob' = "present"
          /\ queue' = [queue EXCEPT ![0] = @ + 1]
          /\ UNCHANGED <<doc, content>>
       \/ /\ outcome = "committed"
          /\ doc' = NewDocument(level)
          /\ blob' = "present"
          /\ content' = n
          /\ queue' = [queue EXCEPT ![0] = @ + 1]
    /\ UNCHANGED <<chunkRows, dups, workers>>
    /\ UNCHANGED notIndexVars

UploadOutcomes == {"upload_failed", "save_failed", "commit_failed", "committed"}

Upload(level, n, outcome) ==
    /\ ~doc.exists
    /\ blob = "absent"
    /\ \/ /\ outcome \in {"upload_failed", "save_failed"}
          /\ UNCHANGED <<doc, blob, content, queue>>
       \/ /\ outcome = "commit_failed"
          /\ blob' = "present"
          /\ UNCHANGED <<doc, content, queue>>
       \/ /\ outcome = "committed"
          /\ doc' = NewDocument(level)
          /\ blob' = "present"
          /\ content' = n
          /\ queue' = [queue EXCEPT ![0] = @ + 1]
    /\ UNCHANGED <<chunkRows, dups, workers>>
    /\ UNCHANGED notIndexVars

\* ------------------------------------------------------------------------
\* Task runner: delivery of a message to a worker
\* ------------------------------------------------------------------------
Started(r) == [Idle EXCEPT !.pc = "fetch", !.retries = r]

\* The pool hands a message to its first free worker.
FreeWorker(w) ==
    /\ workers[w].pc = "idle"
    /\ \A v \in WorkerIds : v < w => workers[v].pc # "idle"

\* A message is taken off the queue and index_document_task starts.
Deliver(w, r) ==
    /\ FreeWorker(w)
    /\ queue[r] > 0
    /\ queue' = [queue EXCEPT ![r] = @ - 1]
    /\ workers' = [workers EXCEPT ![w] = Started(r)]
    /\ UNCHANGED <<doc, chunkRows, blob, content, dups>>
    /\ UNCHANGED notIndexVars

\* At-least-once delivery: the message is handed to a worker and stays
\* deliverable.
DuplicateDeliver(w, r) ==
    /\ FreeWorker(w)
    /\ queue[r] > 0
    /\ dups < MaxDup
    /\ dups' = dups + 1
    /\ workers' = [workers EXCEPT ![w] = Started(r)]
    /\ UNCHANGED <<doc, chunkRows, blob, content, queue>>
    /\ UNCHANGED notIndexVars

\* ------------------------------------------------------------------------
\* DocumentIndexingService.index_document
\* ------------------------------------------------------------------------
\* Document.objects.get, then status = PROCESSING saved with
\* update_fields=["status"].  A failing save raises outside the try block.
FetchAndMark(w, saveOk) ==
    /\ workers[w].pc = "fetch"
    /\ doc.exists
    /\ IF saveOk
       THEN /\ doc' = [doc EXCEPT !.status = "PROCESSING"]
            /\ workers' = [workers EXCEPT ![w].pc = "download",
                                          ![w].level = doc.security_level]
       ELSE /\ UNCHANGED doc
            /\ workers' = [workers EXCEPT ![w].pc = "task_except",
                                          ![w].exc = DatabaseError]
    /\ UNCHANGED <<chunkRows, blob, content, queue, dups>>
    /\ UNCHANGED notIndexVars

\* An exception reaches the except block of index_document: the locals of
\* the pipeline are dead from here on.
Caught(worker, exc) ==
    [Idle EXCEPT !.pc = "handler", !.retries = worker.retries, !.exc = exc]

\* Step 1: MinIOService.download_file into the scratch file.
Download(w, s3Ok) ==
    /\ workers[w].pc = "download"
    /\ IF blob = "present" /\ s3Ok
       THEN workers' = [workers EXCEPT ![w].pc = "process"]
       ELSE workers' = [workers EXCEPT ![w] = Caught(workers[w], S3Error)]
    /\ UNCHANGED <<doc, chunkRows, blob, content, queue, dups>>
    /\ UNCHANGED notIndexVars

\* The configuration an attempt runs under: with "bad_chunking" the settings
\* give CHUNK_OVERLAP >= CHUNK_SIZE and ChunkingService() raises ValueError
\* once text was extracted.  The file_type of an uploaded document is one
\* validate_file admitted, and those are the SUPPORTED_TYPES of extract_text.
Configurations == {"ok", "bad_chunking"}

ConfigurationErrors == {ChunkConfigError}

\* Steps 2 and 3: process_document, the zero-chunk check, embed_batch and the
\* count check.  got is the number of vectors embed_batch returns.  The
\* outcomes of steps that a failure keeps from running are not consulted:
\* one choice of them is taken.
ProcessResult(n, config, extractOk, inferenceOk, got) ==
    IF ~extractOk THEN [exc |-> ExtractError, chunks |-> 0, embeddings |-> 0]
    ELSE IF n = 0 THEN [exc |-> ZeroChunksError, chunks |-> 0, embeddings |-> 0]
    ELSE IF config = "bad_chunking"
    THEN [exc |-> ChunkConfigError, chunks |-> 0, embeddings |-> 0]
    ELSE IF ~inferenceOk THEN [exc |-> InferenceError, chunks |-> n, embeddings |-> 0]
    ELSE IF got # n THEN [exc |-> MismatchError, chunks |-> n, embeddings |-> got]
    ELSE [exc |-> NoExc, chunks |-> n, embeddings |-> got]

Process(w, config, extractOk, inferenceOk, got) ==
    /\ workers[w].pc = "process"
    /\ config # "ok" => (extractOk /\ inferenceOk /\ got = 0)
    /\ ~extractOk => (inferenceOk /\ got = 0)
    /\ ~inferenceOk => got = 0
    /\ content = 0 => (inferenceOk /\ got = 0)
    /\ LET res == ProcessResult(content, config, extractOk, inferenceOk, got)
       IN  workers' = IF res.exc = NoExc
                      THEN [workers EXCEPT ![w].pc = "persist",
                                           ![w].chunks = res.chunks]
                      ELSE [workers EXCEPT ![w] = Caught(workers[w], res.exc)]
    /\ UNCHANGED <<doc, chunkRows, blob, content, queue, dups>>
    /\ UNCHANGED notIndexVars

\* bulk_create: rows are inserted in chunk_index order; row number failAt is
\* refused by the database, and a row whose (document, chunk_index) is
\* already present violates the unique constraint.
RECURSIVE InsertRows(_, _, _, _, _)
InsertRows(rows, i, n, level, failAt) ==
    IF i = n THEN [exc |-> NoExc, rows |-> rows]
    ELSE IF failAt = i + 1 THEN [exc |-> RowInsertError, rows |-> rows]
    ELSE IF i \in ChunkIndexes(rows) THEN [exc |-> IntegrityError, rows |-> rows]
    ELSE InsertRows(rows \cup {NewChunk(i, level)}, i + 1, n, level, failAt)

\* PersistTransaction with the document saved ahead of, and outside, the
\* transaction that inserts the rows.
PersistTransaction_SaveFirst(d, rows, n, level, failAt) ==
    LET ins == InsertRows(rows, 0, n, level, failAt)
        saved == [d EXCEPT !.chunk_count = n, !.status = "INDEXED"]
    IN  IF ins.exc # NoExc
        THEN [exc |-> ins.exc, doc |-> saved, rows |-> rows]
        ELSE [exc |-> NoExc, doc |-> saved, rows |-> ins.rows]

\* Step 4: the transaction.atomic block.  failAt = 0: no injected failure;
\* 1..n: the insert of that row fails; n + 1: the document save fails.
\* Whatever fails, the block's writes are rolled back.
PersistTransaction(d, rows, n, level, failAt) ==
    LET ins == InsertRows(rows, 0, n, level, failAt)
    IN  IF ins.exc # NoExc
        THEN [exc |-> ins.exc, doc |-> d, rows |-> rows]
        ELSE IF failAt = n + 1
        THEN [exc |-> DatabaseError, doc |-> d, rows |-> rows]
        ELSE [exc |-> NoExc,
              doc |-> [d EXCEPT !.chunk_count = n, !.status = "INDEXED"],
              rows |-> ins.rows]

\* Persist with the rows' tier read from the Document row at the insert, not
\* from the object the attempt fetched.
Persist_TierReadAtInsert(w, failAt) ==
    /\ workers[w].pc = "persist"
    /\ LET n == workers[w].chunks
           txn == PersistTransaction(doc, chunkRows, n, doc.security_level, failAt)
       IN  /\ failAt \in 0..(n + 1)
           /\ doc' = txn.doc
           /\ chunkRows' = txn.rows
           /\ workers' = IF txn.exc = NoExc
                         THEN [workers EXCEPT ![w] = Idle]
                         ELSE [workers EXCEPT ![w] = Caught(workers[w], txn.exc)]
    /\ UNCHANGED <<blob, content, queue, dups>>
    /\ UNCHANGED notIndexVars

\* On success the scratch file is removed, index_document returns True and
\* the task returns its result.
Persist(w, failAt) ==
    /\ workers[w].pc = "persist"
    /\ LET n == workers[w].chunks
           txn == PersistTransaction(doc, chunkRows, n, workers[w].level, failAt)
       IN  /\ failAt \in 0..(n + 1)
           /\ doc' = txn.doc
           /\ chunkRows' = txn.rows
           /\ workers' = IF txn.exc = NoExc
                         THEN [workers EXCEPT ![w] = Idle]
                         ELSE [workers EXCEPT ![w] = Caught(workers[w], txn.exc)]
    /\ UNCHANGED <<blob, content, queue, dups>>
    /\ UNCHANGED notIndexVars

\* The except block: status = FAILED and error_message = str(exc) saved with
\* update_fields=["status", "error_message"], then re-raise.  When the save
\* itself raises, its exception replaces the original one.  The finally
\* block removes the scratch file.
FailureHandlerSave(d, exc, saveOk) ==
    IF saveOk
    THEN [doc |-> [d EXCEPT !.status = "FAILED", !.error_message = <<Str(exc)>>],
          raised |-> exc]
    ELSE [doc |-> d, raised |-> DatabaseError]

\* The except block removing the source object as well.
FailureHandler_DeletesBlob(w, saveOk) ==
    /\ workers[w].pc = "handler"
    /\ LET res == FailureHandlerSave(doc, workers[w].exc, saveOk)
       IN  /\ doc' = res.doc
           /\ workers' = [workers EXCEPT ![w].pc = "task_except",
                                         ![w].exc = res.raised]
    /\ blob' = IF blob = "present" THEN "deleted" ELSE blob
    /\ UNCHANGED <<chunkRows, content, queue, dups>>
    /\ UNCHANGED notIndexVars

FailureHandler(w, saveOk) ==
    /\ workers[w].pc = "handler"
    /\ LET res == FailureHandlerSave(doc, workers[w].exc, saveOk)
       IN  /\ doc' = res.doc
           /\ workers' = [workers EXCEPT ![w].pc = "task_except",
                                         ![w].exc = res.raised]
    /\ UNCHANGED <<chunkRows, blob, content, queue, dups>>
    /\ UNCHANGED notIndexVars

\* ------------------------------------------------------------------------
\* index_document_task: the except block
\* ------------------------------------------------------------------------
RetriesExhausted(r) == r >= max_retries

\* self.retry sending the message again with the retry count as it was.
TaskRetry_CountNotAdvanced(w) ==
    /\ workers[w].pc = "task_except"
    /\ ~RetriesExhausted(workers[w].retries)
    /\ queue' = [queue EXCEPT ![workers[w].retries] = @ + 1]
    /\ workers' = [workers EXCEPT ![w] = Idle]
    /\ UNCHANGED <<doc, chunkRows, blob, content, dups>>
    /\ UNCHANGED notIndexVars

\* self.retry: one more message, with the retry count advanced.
TaskRetry(w) ==
    /\ workers[w].pc = "task_except"
    /\ ~RetriesExhausted(workers[w].retries)
    /\ queue' = [queue EXCEPT ![workers[w].retries + 1] = @ + 1]
    /\ workers' = [workers EXCEPT ![w] = Idle]
    /\ UNCHANGED <<doc, chunkRows, blob, content, dups>>
    /\ UNCHANGED notIndexVars

PermanentMessage(exc) == <<PERMANENT_FAILURE_PREFIX, Str(exc)>>

\* Permanent failure: the row is fetched and FAILED with the permanent
\* message is saved; a failing save skips the blob deletion.
TaskPermanentSave(w, saveOk) ==
    /\ workers[w].pc = "task_except"
    /\ RetriesExhausted(workers[w].retries)
    /\ IF saveOk
       THEN /\ doc' = [doc EXCEPT !.status = "FAILED",
                                  !.error_message = PermanentMessage(workers[w].exc)]
            /\ workers' = [workers EXCEPT ![w].pc = "delete_blob"]
       ELSE /\ UNCHANGED doc
            /\ workers' = [workers EXCEPT ![w] = Idle]
    /\ UNCHANGED <<chunkRows, blob, content, queue, dups>>
    /\ UNCHANGED notIndexVars

\* MinIOService.delete_file (a failing delete is logged, not raised), then
\* the task raises.
TaskDeleteBlob(w, s3Ok) ==
    /\ workers[w].pc = "delete_blob"
    /\ blob' = IF s3Ok /\ blob = "present" THEN "deleted" ELSE blob
    /\ workers' = [workers EXCEPT ![w] = Idle]
    /\ UNCHANGED <<doc, chunkRows, content, queue, dups>>
    /\ UNCHANGED notIndexVars

IndexNext ==
    \/ \E level \in UploadTiers, n \in 0..MaxChunks,
          outcome \in UploadOutcomes :
            Upload(level, n, outcome)
    \/ \E w \in WorkerIds, r \in Retries : Deliver(w, r)
    \/ \E w \in WorkerIds, r \in Retries : DuplicateDeliver(w, r)
    \/ \E w \in WorkerIds, saveOk \in BOOLEAN : FetchAndMark(w, saveOk)
    \/ \E w \in WorkerIds, s3Ok \in BOOLEAN : Download(w, s3Ok)
    \/ \E w \in WorkerIds, extractOk \in BOOLEAN, inferenceOk \in BOOLEAN,
          got \in 0..MaxChunks : Process(w, "ok", extractOk, inferenceOk, got)
    \/ \E w \in WorkerIds, failAt \in 0..(MaxChunks + 1) : Persist(w, failAt)
    \/ \E w \in WorkerIds, saveOk \in BOOLEAN : FailureHandler(w, saveOk)
    \/ \E w \in WorkerIds : TaskRetry(w)
    \/ \E w \in WorkerIds, saveOk \in BOOLEAN : TaskPermanentSave(w, saveOk)
    \/ \E w \in WorkerIds, s3Ok \in BOOLEAN : TaskDeleteBlob(w, s3Ok)

\* ------------------------------------------------------------------------
\* Access Resolver: rag/services/access_control.py
\* ------------------------------------------------------------------------
Roles == {"GUEST", "EMPLOYEE", "MANAGER", "CEO", "VICE_PRESIDENT"}

\* A role outside User.Role (the column is a plain string).
UnknownRoles == {"INTERN"}

\* user is None, or a User with a role.
NoUser == [is_none |-> TRUE, role |-> ""]
UserWithRole(role) == [is_none |-> FALSE, role |-> role]
Users == {NoUser} \cup {UserWithRole(r) : r \in Roles \cup UnknownRoles}

ROLE_TO_MAX_LEVEL_ManagerVeryHigh ==
    [r \in Roles |->
        CASE r = "GUEST" -> "LOW"
          [] r = "EMPLOYEE" -> "MID"
          [] r = "MANAGER" -> "VERY_HIGH"
          [] r = "CEO" -> "VERY_HIGH"
          [] r = "VICE_PRESIDENT" -> "VERY_HIGH"]

ROLE_TO_MAX_LEVEL ==
    [r \in Roles |->
        CASE r = "GUEST" -> "LOW"
          [] r = "EMPLOYEE" -> "MID"
          [] r = "MANAGER" -> "HIGH"
          [] r = "CEO" -> "VERY_HIGH"
          [] r = "VICE_PRESIDENT" -> "VERY_HIGH"]

SECURITY_LEVEL_ACCESS ==
    [l \in SecurityLevel |->
        CASE l = "LOW" -> <<"LOW">>
          [] l = "MID" -> <<"LOW", "MID">>
          [] l = "HIGH" -> <<"LOW", "MID", "HIGH">>
          [] l = "VERY_HIGH" -> <<"LOW", "MID", "HIGH", "VERY_HIGH">>]

\* The resolver granting every tier to a role it does not know.
get_user_allowed_security_levels_FailOpen(user) ==
    IF user.is_none
    THEN <<(<<"LOW">>), "LOW">>
    ELSE LET effective_max ==
                 IF user.role \in DOMAIN ROLE_TO_MAX_LEVEL
                 THEN ROLE_TO_MAX_LEVEL[user.role]
                 ELSE "VERY_HIGH"
         IN  <<SECURITY_LEVEL_ACCESS[effective_max], effective_max>>

\* (allowed_levels, effective_max_level)
get_user_allowed_security_levels(user) ==
    IF user.is_none
    THEN <<(<<"LOW">>), "LOW">>
    ELSE LET effective_max ==
                 IF user.role \in DOMAIN ROLE_TO_MAX_LEVEL
                 THEN ROLE_TO_MAX_LEVEL[user.role]
                 ELSE "LOW"
             allowed_levels ==
                 IF effective_max \in DOMAIN SECURITY_LEVEL_ACCESS
                 THEN SECURITY_LEVEL_ACCESS[effective_max]
                 ELSE <<"LOW">>
         IN  <<allowed_levels, effective_max>>

\* ------------------------------------------------------------------------
\* The chunk table a query runs against
\* ------------------------------------------------------------------------
ChunkIds == 1..NChunks
Similarities == {0, 1, 2}

\* A DocumentChunk row as retrieval sees it: similarity is the row's cosine
\* similarity to the query vector.
ChunkAttributes ==
    [security_level : SecurityLevel, is_active : BOOLEAN, similarity : Similarities]

Elements(seq) == {seq[i] : i \in 1..Len(seq)}

\* ------------------------------------------------------------------------
\* RAGQueryService._retrieve_chunks
\* ------------------------------------------------------------------------
Candidates_AnyTier(table, allowed_levels) ==
    {c \in DOMAIN table : table[c].is_active}

Candidates_Inactive(table, allowed_levels) ==
    {c \in DOMAIN table : table[c].security_level \in Elements(allowed_levels)}

\* .filter(is_active=True, security_level__in=allowed_levels)
Candidates(table, allowed_levels) ==
    {c \in DOMAIN table :
        /\ table[c].is_active
        /\ table[c].security_level \in Elements(allowed_levels)}

\* .annotate(similarity=...).filter(similarity__gte=threshold)
AboveThreshold(table, ids) ==
    {c \in ids : table[c].similarity >= SIMILARITY_THRESHOLD}

\* .order_by("similarity"): the lowest similarity first.
OrderedBySimilarity_Ascending(table, ids) ==
    {s \in [1..Cardinality(ids) -> ids] :
        /\ \A i, j \in DOMAIN s : i # j => s[i] # s[j]
        /\ \A i, j \in DOMAIN s : i < j => table[s[i]].similarity <= table[s[j]].similarity}

\* .order_by("-similarity"): every order of the rows that is non-increasing
\* in similarity (the database breaks ties as it likes).
OrderedBySimilarity(table, ids) ==
    {s \in [1..Cardinality(ids) -> ids] :
        /\ \A i, j \in DOMAIN s : i # j => s[i] # s[j]
        /\ \A i, j \in DOMAIN s : i < j => table[s[i]].similarity >= table[s[j]].similarity}

Limit(s, k) == IF Len(s) <= k THEN s ELSE SubSeq(s, 1, k)

ChunkObject(table, c) ==
    [id |-> c, security_level |-> table[c].security_level,
     is_active |-> table[c].is_active, similarity |-> table[c].similarity]

\* The chunk lists the queryset can evaluate to.
RetrieveChunks(table, allowed_levels) ==
    LET ids == AboveThreshold(table, Candidates(table, allowed_levels))
    IN  {[i \in DOMAIN Limit(s, TOP_K) |-> ChunkObject(table, s[i])] :
            s \in OrderedBySimilarity(table, ids)}

ChunkIdList(chunks) == [i \in DOMAIN chunks |-> chunks[i].id]

\* ------------------------------------------------------------------------
\* RAGQueryService._build_context
\* ------------------------------------------------------------------------
\* len("[Source i: ]\n") for a source number of one digit.
LabelChars == 13

\* len(text) of a chunk's labelled text: the label, the title and the content
\* where the chunk has them in characters, one unit of the budget where the
\* retrieved row stands for its whole text.
LabelledLength(chunk) ==
    IF "chars" \in DOMAIN chunk THEN LabelChars + chunk.chars ELSE 1

\* The loop with continue in place of break: a text over the budget is passed
\* over and later ones that fit are taken.
RECURSIVE BuildContextFrom_SkipTooLong(_, _, _, _, _)
BuildContextFrom_SkipTooLong(chunks, i, parts, total_chars, max_context_length) ==
    IF i > Len(chunks) THEN parts
    ELSE IF total_chars + LabelledLength(chunks[i]) > max_context_length
    THEN BuildContextFrom_SkipTooLong(chunks, i + 1, parts, total_chars,
                                      max_context_length)
    ELSE BuildContextFrom_SkipTooLong(chunks, i + 1,
                          Append(parts, [source |-> i, chunk |-> chunks[i].id]),
                          total_chars + LabelledLength(chunks[i]), max_context_length)

\* The labelled texts that fit, in order, until one would exceed the budget.
RECURSIVE BuildContextFrom(_, _, _, _, _)
BuildContextFrom(chunks, i, parts, total_chars, max_context_length) ==
    IF i > Len(chunks) THEN parts
    ELSE IF total_chars + LabelledLength(chunks[i]) > max_context_length THEN parts
    ELSE BuildContextFrom(chunks, i + 1,
                          Append(parts, [source |-> i, chunk |-> chunks[i].id]),
                          total_chars + LabelledLength(chunks[i]), max_context_length)

\* _build_context of the module's service, made without an argument.
BuildContext(chunks) == BuildContextFrom(chunks, 1, <<>>, 0, MAX_CONTEXT_LENGTH)

\* ------------------------------------------------------------------------
\* LLMService.generate_answer
\* ------------------------------------------------------------------------
\* What the pipeline call of _generate_with_llm comes to: "ok" a text after
\* the echoed prompt, "inference_failed" the pipeline raises, "empty_result"
\* an empty result list, "malformed" no generated_text in it, "empty_answer"
\* nothing left once the prompt is stripped.
InferenceOutcomes == {"ok", "inference_failed", "empty_result", "malformed", "empty_answer"}

\* "unavailable": is_available returned False (the model is not loaded and
\* does not load).
LlmOutcomes == InferenceOutcomes \cup {"unavailable"}

PipelineError == Exc("RuntimeError", "pipeline failed")
MalformedResponseError == Exc("ValueError", "returned an empty or malformed response")
EmptyAnswerError == Exc("ValueError", "produced an empty answer after stripping the prompt")

\* _generate_with_llm: the answer, or the exception it raises.
GenerateWithLlm(context, inference) ==
    CASE inference = "ok" -> [exc |-> NoExc, answer |-> <<"llm answer", context>>]
      [] inference = "inference_failed" -> [exc |-> PipelineError, answer |-> <<>>]
      [] inference \in {"empty_result", "malformed"}
            -> [exc |-> MalformedResponseError, answer |-> <<>>]
      [] inference = "empty_answer" -> [exc |-> EmptyAnswerError, answer |-> <<>>]

\* _generate_extractive
GenerateExtractive(context) == <<"extractive answer", context>>

\* generate_answer without the try/except around _generate_with_llm.
GenerateAnswer_Uncaught(context, llm) ==
    IF llm = "unavailable"
    THEN [answer |-> GenerateExtractive(context), used_llm |-> FALSE, raised |-> NoExc]
    ELSE LET generated == GenerateWithLlm(context, llm)
         IN  [answer |-> generated.answer, used_llm |-> TRUE, raised |-> generated.exc]

\* generate_answer taking the empty answer for the model's.
GenerateAnswer_EmptyAnswerKept(context, llm) ==
    IF llm = "unavailable" \/ llm \in {"inference_failed", "empty_result", "malformed"}
    THEN [answer |-> GenerateExtractive(context), used_llm |-> FALSE, raised |-> NoExc]
    ELSE [answer |-> GenerateWithLlm(context, llm).answer, used_llm |-> TRUE,
          raised |-> NoExc]

\* (answer, used_llm): the model's answer, or the extractive fallback when the
\* model is unavailable or _generate_with_llm raises.  raised: the exception
\* leaving generate_answer, if any.
GenerateAnswer(context, llm) ==
    IF llm = "unavailable"
    THEN [answer |-> GenerateExtractive(context), used_llm |-> FALSE, raised |-> NoExc]
    ELSE LET generated == GenerateWithLlm(context, llm)
         IN  IF generated.exc = NoExc
             THEN [answer |-> generated.answer, used_llm |-> TRUE, raised |-> NoExc]
             ELSE [answer |-> GenerateExtractive(context), used_llm |-> FALSE,
                   raised |-> NoExc]

\* ------------------------------------------------------------------------
\* Threads calling the model services
\* ------------------------------------------------------------------------
ThreadIds == {1, 2}

\* Contexts handed to generate_answer: the empty one and one labelled chunk.
Contexts == {<<>>, <<[source |-> 1, chunk |-> 1]>>}

NoThread ==
    [kind |-> "none", pc |-> "start", context |-> <<>>, loaded |-> FALSE,
     llm |-> "ok", tokenizer |-> "None", model |-> "None", raised |-> NoExc,
     answer |-> <<>>, used_llm |-> FALSE]

\* A file of the cache directory: the writers that have it open for writing
\* and whether a write of it has been completed.
NoFile == [writers |-> 0, written |-> FALSE]
WholeFile == [writers |-> 0, written |-> TRUE]
Exists(file) == file.writers > 0 \/ file.written
Complete(file) == file.writers = 0 /\ file.written

EmptyCache == [model_onnx |-> NoFile, tokenizer_files |-> NoFile]
FilledCache == [model_onnx |-> WholeFile, tokenizer_files |-> WholeFile]

ModelIdle ==
    /\ embedder = [tokenizer |-> "None", model |-> "None"]
    /\ cacheDir = EmptyCache
    /\ llmRegistry = [tokenizer |-> "None", model |-> "None", pipeline |-> "None"]
    /\ threads = [t \in ThreadIds |-> NoThread]

ModelInit ==
    /\ embedder = [tokenizer |-> "None", model |-> "None"]
    /\ cacheDir \in {EmptyCache, FilledCache}
    /\ llmRegistry = [tokenizer |-> "None", model |-> "None", pipeline |-> "None"]
    /\ threads = [t \in ThreadIds |-> NoThread]

At(t, kind, pc) == threads[t].kind = kind /\ threads[t].pc = pc
Goto(t, pc) == [threads EXCEPT ![t].pc = pc]

\* --- LLMService.generate_answer ---------------------------------------------
StartGenerate(t, context) ==
    /\ threads[t].kind = "none"
    /\ threads' = [threads EXCEPT ![t].kind = "generate", ![t].pc = "is_available",
                                  ![t].context = context]
    /\ UNCHANGED <<embedder, cacheDir, llmRegistry>>
    /\ UNCHANGED <<indexVars, queryVars, callVars>>

\* is_available: the pipeline entry is set, or load_model is called.
IsAvailable(t) ==
    /\ At(t, "generate", "is_available")
    /\ threads' = IF llmRegistry.pipeline # "None"
                  THEN [threads EXCEPT ![t].loaded = TRUE, ![t].pc = "generate"]
                  ELSE Goto(t, "load_model")
    /\ UNCHANGED <<embedder, cacheDir, llmRegistry>>
    /\ UNCHANGED <<indexVars, queryVars, callVars>>

\* load_model up to the registry writes: returns True at once when the
\* pipeline entry is set; otherwise builds tokenizer, model and pipeline, and
\* returns False when that raises.
LoadModel(t, loadOk) ==
    /\ At(t, "generate", "load_model")
    /\ llmRegistry.pipeline # "None" => loadOk
    /\ threads' = IF llmRegistry.pipeline # "None"
                  THEN [threads EXCEPT ![t].loaded = TRUE, ![t].pc = "generate"]
                  ELSE IF loadOk
                  THEN [threads EXCEPT ![t].tokenizer = "loaded", ![t].model = "loaded",
                                       ![t].pc = "set_tokenizer"]
                  ELSE [threads EXCEPT ![t].loaded = FALSE, ![t].pc = "generate"]
    /\ UNCHANGED <<embedder, cacheDir, llmRegistry>>
    /\ UNCHANGED <<indexVars, queryVars, callVars>>

\* The three registry writes of load_model, one after the other.
SetRegistry(t) ==
    /\ threads[t].kind = "generate"
    /\ \/ /\ threads[t].pc = "set_tokenizer"
          /\ llmRegistry' = [llmRegistry EXCEPT !.tokenizer = threads[t].tokenizer]
          /\ threads' = Goto(t, "set_model")
       \/ /\ threads[t].pc = "set_model"
          /\ llmRegistry' = [llmRegistry EXCEPT !.model = threads[t].model]
          /\ threads' = Goto(t, "set_pipeline")
       \/ /\ threads[t].pc = "set_pipeline"
          /\ llmRegistry' = [llmRegistry EXCEPT !.pipeline = "loaded"]
          /\ threads' = [threads EXCEPT ![t].loaded = TRUE, ![t].pc = "generate"]
    /\ UNCHANGED <<embedder, cacheDir>>
    /\ UNCHANGED <<indexVars, queryVars, callVars>>

\* The rest of generate_answer: inference when the model is available,
\* the extractive fallback otherwise.
Generate(t, inference) ==
    /\ At(t, "generate", "generate")
    /\ ~threads[t].loaded => inference = "ok"
    /\ LET llm == IF threads[t].loaded THEN inference ELSE "unavailable"
           result == GenerateAnswer(threads[t].context, llm)
       IN  threads' = [threads EXCEPT ![t].pc = "done", ![t].llm = llm,
                                      ![t].raised = result.raised,
                                      ![t].answer = result.answer,
                                      ![t].used_llm = result.used_llm]
    /\ UNCHANGED <<embedder, cacheDir, llmRegistry>>
    /\ UNCHANGED <<indexVars, queryVars, callVars>>

\* --- EmbeddingService.load ----------------------------------------------------
CacheReadError == Exc("OSError", "cannot load from the ONNX cache directory")

StartEmbed(t) ==
    /\ threads[t].kind = "none"
    /\ threads' = [threads EXCEPT ![t].kind = "embed", ![t].pc = "load"]
    /\ UNCHANGED <<embedder, cacheDir, llmRegistry>>
    /\ UNCHANGED <<indexVars, queryVars, callVars>>

\* if self._model is not None: return self._tokenizer, self._model
LoadGuard(t) ==
    /\ At(t, "embed", "load")
    /\ threads' = IF embedder.model # "None"
                  THEN [threads EXCEPT ![t].tokenizer = embedder.tokenizer,
                                       ![t].model = embedder.model, ![t].pc = "done"]
                  ELSE Goto(t, "exists")
    /\ UNCHANGED <<embedder, cacheDir, llmRegistry>>
    /\ UNCHANGED <<indexVars, queryVars, callVars>>

\* already_exported = os.path.exists(onnx_model_path)
CheckExported(t) ==
    /\ At(t, "embed", "exists")
    /\ threads' = IF Exists(cacheDir.model_onnx)
                  THEN Goto(t, "cache_tokenizer")
                  ELSE Goto(t, "hub_tokenizer")
    /\ UNCHANGED <<embedder, cacheDir, llmRegistry>>
    /\ UNCHANGED <<indexVars, queryVars, callVars>>

\* from_pretrained on a file of the cache directory: it loads a complete file,
\* raises on a missing one, and does either on one that is being written.
Reads(file, readOk) == Complete(file) \/ (file.writers > 0 /\ readOk)

Raise(t, exc) == [threads EXCEPT ![t].pc = "done", ![t].raised = exc]

\* self._tokenizer = AutoTokenizer.from_pretrained(self.ONNX_CACHE_DIR)
LoadCachedTokenizer(t, readOk) ==
    /\ At(t, "embed", "cache_tokenizer")
    /\ cacheDir.tokenizer_files.writers = 0 => readOk
    /\ IF Reads(cacheDir.tokenizer_files, readOk)
       THEN /\ embedder' = [embedder EXCEPT !.tokenizer = "cached"]
            /\ threads' = Goto(t, "cache_model")
       ELSE /\ threads' = Raise(t, CacheReadError)
            /\ UNCHANGED embedder
    /\ UNCHANGED <<cacheDir, llmRegistry>>
    /\ UNCHANGED <<indexVars, queryVars, callVars>>

\* self._model = ORTModelForFeatureExtraction.from_pretrained(self.ONNX_CACHE_DIR)
LoadCachedModel(t, readOk) ==
    /\ At(t, "embed", "cache_model")
    /\ cacheDir.model_onnx.writers = 0 => readOk
    /\ IF Reads(cacheDir.model_onnx, readOk)
       THEN /\ embedder' = [embedder EXCEPT !.model = "cached"]
            /\ threads' = Goto(t, "return")
       ELSE /\ threads' = Raise(t, CacheReadError)
            /\ UNCHANGED embedder
    /\ UNCHANGED <<cacheDir, llmRegistry>>
    /\ UNCHANGED <<indexVars, queryVars, callVars>>

\* The export branch up to the model: makedirs, tokenizer and exported model
\* from the hub, assigned one after the other.
ExportFromHub(t) ==
    /\ threads[t].kind = "embed"
    /\ \/ /\ threads[t].pc = "hub_tokenizer"
          /\ embedder' = [embedder EXCEPT !.tokenizer = "hub"]
          /\ threads' = Goto(t, "hub_model")
       \/ /\ threads[t].pc = "hub_model"
          /\ embedder' = [embedder EXCEPT !.model = "exported"]
          /\ threads' = Goto(t, "save_model")
    /\ UNCHANGED <<cacheDir, llmRegistry>>
    /\ UNCHANGED <<indexVars, queryVars, callVars>>

Opened(file) == [file EXCEPT !.writers = @ + 1]
Closed(file) == [writers |-> file.writers - 1, written |-> TRUE]

\* self._model.save_pretrained(self.ONNX_CACHE_DIR): the file is opened for
\* writing, and later it is written and closed.
SaveModel(t) ==
    /\ threads[t].kind = "embed"
    /\ \/ /\ threads[t].pc = "save_model"
          /\ cacheDir' = [cacheDir EXCEPT !.model_onnx = Opened(@)]
          /\ threads' = Goto(t, "save_model_end")
       \/ /\ threads[t].pc = "save_model_end"
          /\ cacheDir' = [cacheDir EXCEPT !.model_onnx = Closed(@)]
          /\ threads' = Goto(t, "save_tokenizer")
    /\ UNCHANGED <<embedder, llmRegistry>>
    /\ UNCHANGED <<indexVars, queryVars, callVars>>

\* self._tokenizer.save_pretrained(self.ONNX_CACHE_DIR)
SaveTokenizer(t) ==
    /\ threads[t].kind = "embed"
    /\ \/ /\ threads[t].pc = "save_tokenizer"
          /\ cacheDir' = [cacheDir EXCEPT !.tokenizer_files = Opened(@)]
          /\ threads' = Goto(t, "save_tokenizer_end")
       \/ /\ threads[t].pc = "save_tokenizer_end"
          /\ cacheDir' = [cacheDir EXCEPT !.tokenizer_files = Closed(@)]
          /\ threads' = Goto(t, "return")
    /\ UNCHANGED <<embedder, llmRegistry>>
    /\ UNCHANGED <<indexVars, queryVars, callVars>>

\* return self._tokenizer, self._model
LoadReturn(t) ==
    /\ At(t, "embed", "return")
    /\ threads' = [threads EXCEPT ![t].tokenizer = embedder.tokenizer,
                                  ![t].model = embedder.model, ![t].pc = "done"]
    /\ UNCHANGED <<embedder, cacheDir, llmRegistry>>
    /\ UNCHANGED <<indexVars, queryVars, callVars>>

ModelNext ==
    \/ \E t \in ThreadIds, context \in Contexts : StartGenerate(t, context)
    \/ \E t \in ThreadIds : IsAvailable(t)
    \/ \E t \in ThreadIds, loadOk \in BOOLEAN : LoadModel(t, loadOk)
    \/ \E t \in ThreadIds : SetRegistry(t)
    \/ \E t \in ThreadIds, inference \in InferenceOutcomes : Generate(t, inference)
    \/ \E t \in ThreadIds : StartEmbed(t)
    \/ \E t \in ThreadIds : LoadGuard(t)
    \/ \E t \in ThreadIds : CheckExported(t)
    \/ \E t \in ThreadIds, readOk \in BOOLEAN : LoadCachedTokenizer(t, readOk)
    \/ \E t \in ThreadIds, readOk \in BOOLEAN : LoadCachedModel(t, readOk)
    \/ \E t \in ThreadIds : ExportFromHub(t)
    \/ \E t \in ThreadIds : SaveModel(t)
    \/ \E t \in ThreadIds : SaveTokenizer(t)
    \/ \E t \in ThreadIds : LoadReturn(t)

\* ------------------------------------------------------------------------
\* ChunkingService.chunk_text
\* ------------------------------------------------------------------------
\* A text is a sequence of characters; "\n" stands for the whitespace
\* characters other than the space.
Whitespace == {" ", "\n"}
Characters == {"a", "b"} \cup Whitespace

Texts == UNION {[1..n -> Characters] : n \in 0..MaxTextLen}

\* self.chunk_size, self.chunk_overlap as __init__ accepts them.
ChunkSettings ==
    {st \in [chunk_size : 1..MaxChunkSize, chunk_overlap : 0..MaxChunkSize] :
        st.chunk_overlap < st.chunk_size}

\* An argument of __init__: None (the default) or an integer.
NotGiven == [given |-> FALSE, value |-> 0]
Given(v) == [given |-> TRUE, value |-> v]
ArgumentValues == (0 - 1)..MaxChunkSize
Arguments == {NotGiven} \cup {Given(v) : v \in ArgumentValues}

\* settings.CHUNK_SIZE and settings.CHUNK_OVERLAP
DjangoSettings == [CHUNK_SIZE : 0..MaxChunkSize, CHUNK_OVERLAP : 0..MaxChunkSize]

\* arg or default: None and 0 are falsy.
Truthy(arg) == arg.given /\ arg.value # 0
OrDefault(arg, default) == IF Truthy(arg) THEN arg.value ELSE default

\* __init__: the defaults are applied, then the check.
ChunkingServiceInit(c) ==
    LET size == OrDefault(c.arg_size, c.settings.CHUNK_SIZE)
        overlap == OrDefault(c.arg_overlap, c.settings.CHUNK_OVERLAP)
    IN  IF overlap >= size
        THEN [c EXCEPT !.pc = "raised", !.raised = ChunkConfigError,
                       !.chunk_size = size, !.chunk_overlap = overlap]
        ELSE [c EXCEPT !.pc = "constructed", !.chunk_size = size,
                       !.chunk_overlap = overlap]

RECURSIVE LStrip(_)
LStrip(text) ==
    IF text = <<>> THEN <<>>
    ELSE IF Head(text) \in Whitespace THEN LStrip(Tail(text))
    ELSE text

RECURSIVE RStrip(_)
RStrip(text) ==
    IF text = <<>> THEN <<>>
    ELSE IF text[Len(text)] \in Whitespace
    THEN RStrip(SubSeq(text, 1, Len(text) - 1))
    ELSE text

\* str.strip()
Strip(text) == RStrip(LStrip(text))

\* re.sub(r"\s+", " ", text)
RECURSIVE CollapseWhitespace(_)
CollapseWhitespace(text) ==
    IF text = <<>> THEN <<>>
    ELSE IF Head(text) \in Whitespace
    THEN <<" ">> \o CollapseWhitespace(LStrip(text))
    ELSE <<Head(text)>> \o CollapseWhitespace(Tail(text))

clean_text(text) == Strip(CollapseWhitespace(text))

\* A slice bound as Python resolves it: a negative bound counts from the end,
\* and bounds are clamped to the text.
SliceBound(i, n) ==
    IF i < 0 THEN (IF n + i < 0 THEN 0 ELSE n + i)
    ELSE IF i > n THEN n ELSE i

\* text[start:end]
Slice(text, start, end) ==
    SubSeq(text, SliceBound(start, Len(text)) + 1, SliceBound(end, Len(text)))

NoChunking ==
    [pc |-> "idle", text |-> <<>>, chunk_size |-> 1, chunk_overlap |-> 0,
     cleaned |-> <<>>, start |-> 0, chunks |-> <<>>,
     arg_size |-> NotGiven, arg_overlap |-> NotGiven,
     settings |-> [CHUNK_SIZE |-> 1, CHUNK_OVERLAP |-> 0], raised |-> NoExc]

ChunkIdle == chunker = NoChunking

\* ChunkingService(chunk_size, chunk_overlap) is about to be constructed
\* under some settings.
ChunkInit ==
    \E size \in Arguments, overlap \in Arguments, st \in DjangoSettings :
        chunker = [NoChunking EXCEPT !.pc = "new", !.arg_size = size,
                                     !.arg_overlap = overlap, !.settings = st]

Construct ==
    /\ chunker.pc = "new"
    /\ chunker' = ChunkingServiceInit(chunker)
    /\ UNCHANGED <<indexVars, queryVars, modelVars, extractVars, contextVars, detailVars>>

\* chunk_text(text) is called on the constructed service, which keeps
\* chunk_size and chunk_overlap; the constructor's arguments are gone and the
\* settings are not read again.
ChunkTextCall(text) ==
    /\ chunker.pc = "constructed"
    /\ chunker' = [NoChunking EXCEPT !.pc = "called", !.text = text,
                                     !.chunk_size = chunker.chunk_size,
                                     !.chunk_overlap = chunker.chunk_overlap]
    /\ UNCHANGED <<indexVars, queryVars, modelVars, extractVars, contextVars, detailVars>>

\* The blank check and _clean_text.
ChunkTextStart ==
    /\ chunker.pc = "called"
    /\ chunker' = IF Strip(chunker.text) = <<>>
                  THEN [chunker EXCEPT !.pc = "returned"]
                  ELSE [chunker EXCEPT !.pc = "loop",
                                       !.cleaned = clean_text(chunker.text)]
    /\ UNCHANGED <<indexVars, queryVars, modelVars, extractVars, contextVars, detailVars>>

\* The while loop appending the window as sliced, without strip().
ChunkTextWindow_Unstripped ==
    /\ chunker.pc = "loop"
    /\ chunker.start < Len(chunker.cleaned)
    /\ LET end == chunker.start + chunker.chunk_size
           chunk == Slice(chunker.cleaned, chunker.start, end)
           stride == chunker.chunk_size - chunker.chunk_overlap
       IN  chunker' = [chunker EXCEPT
                          !.chunks = IF chunk # <<>> THEN Append(@, chunk) ELSE @,
                          !.start = @ + stride]
    /\ UNCHANGED <<indexVars, queryVars, modelVars, extractVars, contextVars, detailVars>>

\* The while loop advancing by chunk_size, the overlap left out of the stride.
ChunkTextWindow_StrideIsSize ==
    /\ chunker.pc = "loop"
    /\ chunker.start < Len(chunker.cleaned)
    /\ LET end == chunker.start + chunker.chunk_size
           chunk == Strip(Slice(chunker.cleaned, chunker.start, end))
       IN  chunker' = [chunker EXCEPT
                          !.chunks = IF chunk # <<>> THEN Append(@, chunk) ELSE @,
                          !.start = @ + chunker.chunk_size]
    /\ UNCHANGED <<indexVars, queryVars, modelVars, extractVars, contextVars, detailVars>>

\* One round of the while loop.
ChunkTextWindow ==
    /\ chunker.pc = "loop"
    /\ chunker.start < Len(chunker.cleaned)
    /\ LET end == chunker.start + chunker.chunk_size
           chunk == Strip(Slice(chunker.cleaned, chunker.start, end))
           stride == chunker.chunk_size - chunker.chunk_overlap
       IN  chunker' = [chunker EXCEPT
                          !.chunks = IF chunk # <<>> THEN Append(@, chunk) ELSE @,
                          !.start = @ + stride]
    /\ UNCHANGED <<indexVars, queryVars, modelVars, extractVars, contextVars, detailVars>>

ChunkTextReturn ==
    /\ chunker.pc = "loop"
    /\ chunker.start >= Len(chunker.cleaned)
    /\ chunker' = [chunker EXCEPT !.pc = "returned"]
    /\ UNCHANGED <<indexVars, queryVars, modelVars, extractVars, contextVars, detailVars>>

ChunkNext ==
    \/ Construct
    \/ \E text \in Texts : ChunkTextCall(text)
    \/ ChunkTextStart
    \/ ChunkTextWindow
    \/ ChunkTextReturn

\* ------------------------------------------------------------------------
\* LLMService._generate_extractive, as query uses its answer
\* ------------------------------------------------------------------------
NoExtractive ==
    [pc |-> "idle", segments |-> <<>>, context |-> <<>>, llm |-> "ok",
     answer |-> <<>>, used_llm |-> FALSE, response_source |-> "", rows |-> 0]

ExtractIdle == extractive = NoExtractive

\* The texts between two full stops of a context, and the contexts of up to
\* MaxSegments of them.
SegmentTexts ==
    {<<>>, <<"a">>, <<"b">>, <<" ">>, <<"\n", "a">>, <<"a", "\n", "b">>}
SegmentLists == UNION {[1..n -> SegmentTexts] : n \in 1..MaxSegments}

\* sep.join(parts)
RECURSIVE JoinWith(_, _)
JoinWith(sep, parts) ==
    IF parts = <<>> THEN <<>>
    ELSE IF Len(parts) = 1 THEN parts[1]
    ELSE parts[1] \o sep \o JoinWith(sep, Tail(parts))

\* context.replace("\n", " ")
ReplaceNewlines(text) == [i \in DOMAIN text |-> IF text[i] = "\n" THEN " " ELSE text[i]]

\* text.split("."), from the text left, the segment begun and the segments done.
RECURSIVE SplitFrom(_, _, _)
SplitFrom(text, current, done) ==
    IF text = <<>> THEN Append(done, current)
    ELSE IF Head(text) = "." THEN SplitFrom(Tail(text), <<>>, Append(done, current))
    ELSE SplitFrom(Tail(text), Append(current, Head(text)), done)

Split(text) == SplitFrom(text, <<>>, <<>>)

NonEmpty(text) == text # <<>>

\* [s.strip() for s in context.replace("\n", " ").split(".") if s.strip()]
Sentences(context) ==
    LET parts == Split(ReplaceNewlines(context))
    IN  SelectSeq([i \in DOMAIN parts |-> Strip(parts[i])], NonEmpty)

NoInformation == <<"No relevant information found in the document database.">>

\* _generate_extractive without the [:3] on the sentences.
GenerateExtractiveText_AllSentences(context) ==
    IF Strip(context) = <<>> THEN NoInformation
    ELSE IF Sentences(context) = <<>> THEN NoInformation
    ELSE JoinWith(<<".", " ">>, Sentences(context)) \o <<".">>

\* _generate_extractive on the characters of the context.
GenerateExtractiveText(context) ==
    IF Strip(context) = <<>> THEN NoInformation
    ELSE IF Sentences(context) = <<>> THEN NoInformation
    ELSE JoinWith(<<".", " ">>, Limit(Sentences(context), 3)) \o <<".">>

\* A context reaches generate_answer under some state of the model.
ExtractInit ==
    \E segments \in SegmentLists, llm \in LlmOutcomes :
        extractive = [NoExtractive EXCEPT !.pc = "called", !.segments = segments,
                                          !.context = JoinWith(<<".">>, segments),
                                          !.llm = llm]

\* Stage 4 of query: generate_answer, the fallback's answer as its text.
GenerateAnswerCall ==
    /\ extractive.pc = "called"
    /\ LET generated == GenerateAnswer(extractive.context, extractive.llm)
       IN  extractive' =
               [extractive EXCEPT
                   !.pc = "answered",
                   !.used_llm = generated.used_llm,
                   !.answer = IF generated.used_llm THEN generated.answer
                              ELSE GenerateExtractiveText(extractive.context)]
    /\ UNCHANGED <<indexVars, queryVars, modelVars, chunkVars, contextVars, detailVars>>

\* Stage 5 of query: the audit row with the answer's provenance; a failed
\* insert leaves the call without one.
CreateQueryHistory(insertOk) ==
    /\ extractive.pc = "answered"
    /\ extractive' =
           IF insertOk
           THEN [extractive EXCEPT
                    !.pc = "returned",
                    !.response_source = IF extractive.used_llm THEN "LLM" ELSE "EXTRACTIVE",
                    !.rows = extractive.rows + 1]
           ELSE [extractive EXCEPT !.pc = "failed"]
    /\ UNCHANGED <<indexVars, queryVars, modelVars, chunkVars, contextVars, detailVars>>

ExtractNext ==
    \/ GenerateAnswerCall
    \/ \E insertOk \in BOOLEAN : CreateQueryHistory(insertOk)

\* ------------------------------------------------------------------------
\* RAGQueryService.__init__ and _build_context, on chunks of any length
\* ------------------------------------------------------------------------
NoBuild ==
    [pc |-> "idle", chunks |-> <<>>, arg |-> NotGiven, max_context_length |-> 0,
     parts |-> <<>>, context_length |-> 0]

ContextIdle == builder = NoBuild

\* Retrieved chunks by the characters of title and content together.
ContextChunks ==
    UNION {[1..n -> [id : {1}, chars : 0..MaxChars]] : n \in 0..MaxParts}

Numbered(chunks) == [k \in DOMAIN chunks |-> [chunks[k] EXCEPT !.id = k]]

BudgetArguments == {NotGiven} \cup {Given(v) : v \in 0..MaxBudget}

ContextInit ==
    \E chunks \in ContextChunks, arg \in BudgetArguments :
        builder = [NoBuild EXCEPT !.pc = "new", !.chunks = Numbered(chunks), !.arg = arg]

\* RAGQueryService.__init__
ConstructService ==
    /\ builder.pc = "new"
    /\ builder' = [builder EXCEPT
                      !.pc = "constructed",
                      !.max_context_length = OrDefault(builder.arg, MAX_CONTEXT_LENGTH)]
    /\ UNCHANGED <<indexVars, queryVars, modelVars, chunkVars, extractVars, detailVars>>

RECURSIVE TotalLength(_, _)
TotalLength(chunks, parts) ==
    IF parts = <<>> THEN 0
    ELSE LabelledLength(chunks[Head(parts).source]) + TotalLength(chunks, Tail(parts))

\* len("\n\n".join(parts))
JoinedLength(chunks, parts) ==
    IF parts = <<>> THEN 0
    ELSE TotalLength(chunks, parts) + 2 * (Len(parts) - 1)

\* _build_context
BuildContextCall ==
    /\ builder.pc = "constructed"
    /\ LET parts == BuildContextFrom(builder.chunks, 1, <<>>, 0,
                                     builder.max_context_length)
       IN  builder' = [builder EXCEPT
                          !.pc = "returned",
                          !.parts = parts,
                          !.context_length = JoinedLength(builder.chunks, parts)]
    /\ UNCHANGED <<indexVars, queryVars, modelVars, chunkVars, extractVars, detailVars>>

ContextNext == ConstructService \/ BuildContextCall

NoAttempt == [pc |-> "idle"]
NoRequest == [pc |-> "idle"]

DetailIdle == attempt = NoAttempt /\ request = NoRequest

CallsIdle == ChunkIdle /\ ExtractIdle /\ ContextIdle /\ DetailIdle

\* ------------------------------------------------------------------------
\* RAGQueryService.query
\* ------------------------------------------------------------------------
None == 0

NoResultsMessage == <<"I could not find any relevant information", <<>>>>

EmptyTextError == Exc("ValueError", "embed_text received an empty string.")
RetrievalError == Exc("DatabaseError", "retrieval failed")
AuditWriteError == Exc("DatabaseError", "query history insert failed")

\* QueryHistory.objects.create: insertOk says whether the insert goes through.
\* The new row's id is its position in the table.
CreateHistory(hist, row, insertOk) ==
    IF insertOk
    THEN [exc |-> NoExc, id |-> Len(hist) + 1, history |-> Append(hist, row)]
    ELSE [exc |-> AuditWriteError, id |-> None, history |-> hist]

HistoryRow(source, chunks, max_level, flagged) ==
    [response_source |-> source,
     retrieved_chunk_count |-> Len(chunks),
     retrieved_chunk_ids |-> ChunkIdList(chunks),
     security_level |-> max_level,
     is_flagged |-> flagged]

\* What a call of query comes to: the payload it returns (or the exception
\* that escapes it) and the QueryHistory table afterwards.
Returned(payload, hist) == [raised |-> NoExc, payload |-> payload, history |-> hist]
Escaped(exc, hist) == [raised |-> exc, payload |-> [success |-> FALSE], history |-> hist]

\* _build_no_results_response: the insert is wrapped in try/except.
BuildNoResultsResponse(hist, max_level, insertOk) ==
    LET created == CreateHistory(hist, HistoryRow("NO_RESULTS", <<>>, max_level, FALSE),
                                 insertOk)
    IN  Returned([success |-> TRUE, query_id |-> created.id,
                  answer |-> NoResultsMessage, source |-> "NO_RESULTS",
                  chunks_used |-> 0, latency_ms |-> "elapsed",
                  sources |-> <<>>],
                 created.history)

PersistErrorHistory_Unguarded(hist, exc, max_level, insertOk) ==
    LET created == CreateHistory(hist, HistoryRow("ERROR", <<>>, max_level, TRUE),
                                 insertOk)
    IN  [exc |-> created.exc, id |-> created.id, history |-> created.history]

PersistErrorHistory_Skipped(hist, exc, max_level, insertOk) ==
    [exc |-> NoExc, id |-> None, history |-> hist]

\* _persist_error_history: returns the new row's id, or None when the insert
\* fails.
PersistErrorHistory(hist, exc, max_level, insertOk) ==
    LET created == CreateHistory(hist, HistoryRow("ERROR", <<>>, max_level, TRUE),
                                 insertOk)
    IN  [exc |-> NoExc, id |-> created.id, history |-> created.history]

\* The except block of query.
QueryFailure(hist, exc, max_level, insertOk) ==
    LET persisted == PersistErrorHistory(hist, exc, max_level, insertOk)
    IN  IF persisted.exc # NoExc
        THEN Escaped(persisted.exc, persisted.history)
        ELSE Returned([success |-> FALSE, query_id |-> persisted.id,
                       error |-> Str(exc), latency_ms |-> "elapsed"],
                      persisted.history)

Sources(chunks) ==
    [i \in DOMAIN chunks |->
        [chunk_id |-> chunks[i].id, similarity_score |-> chunks[i].similarity]]

\* Stages 3 to 5 for a non-empty chunk list.
AnswerResponse(hist, chunks, max_level, llm, insertOk) ==
    LET generated == GenerateAnswer(BuildContext(chunks), llm)
        response_source == IF generated.used_llm THEN "LLM" ELSE "EXTRACTIVE"
        created == CreateHistory(hist, HistoryRow(response_source, chunks, max_level, FALSE),
                                 insertOk)
    IN  IF generated.raised # NoExc
        THEN [exc |-> generated.raised, result |-> Returned([success |-> FALSE], hist)]
        ELSE IF created.exc # NoExc
        THEN [exc |-> created.exc, result |-> Returned([success |-> FALSE], hist)]
        ELSE [exc |-> NoExc,
              result |-> Returned([success |-> TRUE, query_id |-> created.id,
                                   answer |-> generated.answer,
                                   source |-> response_source,
                                   chunks_used |-> Len(chunks),
                                   latency_ms |-> "elapsed",
                                   sources |-> Sources(chunks)],
                                  created.history)]

\* A call's outcome together with what became of the generation engine in it:
\* "not_called", or the outcome of the generate_answer call made.
WithGeneration(result, generation) ==
    [raised |-> result.raised, payload |-> result.payload,
     history |-> result.history, generation |-> generation]

\* query calling the generation engine ahead of the check for zero chunks.
QueryResult_GenerateFirst(hist, access, embed, retrieveOk, chunks, llm, auditFails) ==
    LET max_level == access[2]
    IN  IF embed = "empty_text"
        THEN WithGeneration(QueryFailure(hist, EmptyTextError, max_level, auditFails < 1),
                            "not_called")
        ELSE IF embed = "inference_failed"
        THEN WithGeneration(QueryFailure(hist, InferenceError, max_level, auditFails < 1),
                            "not_called")
        ELSE IF ~retrieveOk
        THEN WithGeneration(QueryFailure(hist, RetrievalError, max_level, auditFails < 1),
                            "not_called")
        ELSE LET answered == AnswerResponse(hist, chunks, max_level, llm, auditFails < 1)
             IN  IF chunks = <<>>
                 THEN WithGeneration(BuildNoResultsResponse(hist, max_level, auditFails < 1),
                                     llm)
                 ELSE IF answered.exc # NoExc
                 THEN WithGeneration(QueryFailure(hist, answered.exc, max_level,
                                                  auditFails < 2), llm)
                 ELSE WithGeneration(answered.result, llm)

\* embed: outcome of embedding_service.embed_text ("ok", "empty_text" for a
\* blank query text, "inference_failed" when the embedding model does not load
\* or its inference raises); retrieveOk: whether the retrieval query runs;
\* chunks: the list it evaluates to; llm: what the generation model does when
\* called; auditFails: how many of the call's QueryHistory inserts fail,
\* counted from its first.
QueryResult(hist, access, embed, retrieveOk, chunks, llm, auditFails) ==
    LET max_level == access[2]
    IN  IF embed = "empty_text"
        THEN WithGeneration(QueryFailure(hist, EmptyTextError, max_level, auditFails < 1),
                            "not_called")
        ELSE IF embed = "inference_failed"
        THEN WithGeneration(QueryFailure(hist, InferenceError, max_level, auditFails < 1),
                            "not_called")
        ELSE IF ~retrieveOk
        THEN WithGeneration(QueryFailure(hist, RetrievalError, max_level, auditFails < 1),
                            "not_called")
        ELSE IF chunks = <<>>
        THEN WithGeneration(BuildNoResultsResponse(hist, max_level, auditFails < 1),
                            "not_called")
        ELSE LET answered == AnswerResponse(hist, chunks, max_level, llm, auditFails < 1)
             IN  IF answered.exc # NoExc
                 THEN WithGeneration(QueryFailure(hist, answered.exc, max_level,
                                                  auditFails < 2), llm)
                 ELSE WithGeneration(answered.result, llm)

EmbedOutcomes == {"ok", "empty_text", "inference_failed"}

\* The chunk lists stage 2 can hand on (the empty list when it is not reached).
RetrievalOptions(table, allowed_levels, embed, retrieveOk) ==
    IF embed = "ok" /\ retrieveOk
    THEN RetrieveChunks(table, allowed_levels)
    ELSE {<<>>}

\* QueryHistory inserts a call attempts: one for its outcome, and the ERROR
\* row's after a failed insert on the answer path.
InsertsAttempted(chunks, auditFails) ==
    IF chunks # <<>> /\ auditFails >= 1 THEN 2 ELSE 1

NoQuery ==
    [called |-> FALSE, user |-> NoUser,
     allowed_levels |-> <<>>, effective_max_level |-> "LOW",
     embed |-> "ok", retrieveOk |-> TRUE, retrieved |-> <<>>,
     generation |-> "not_called", auditFails |-> 0,
     rows_before |-> 0, raised |-> NoExc, response |-> [success |-> FALSE]]

\* One call of query.  Collaborator outcomes the call never consults are kept
\* at their first value, so that each run of the call is one step.
Query(user, embed, retrieveOk, llm, auditFails) ==
    /\ ~lastQuery.called
    /\ embed # "ok" => retrieveOk
    /\ LET access == get_user_allowed_security_levels(user)
       IN  \E chunks \in RetrievalOptions(corpus, access[1], embed, retrieveOk) :
              LET result == QueryResult(history, access, embed, retrieveOk,
                                        chunks, llm, auditFails)
              IN  /\ chunks = <<>> => llm = "ok"
                  /\ auditFails <= InsertsAttempted(chunks, auditFails)
                  /\ history' = result.history
                  /\ lastQuery' = [called |-> TRUE, user |-> user,
                                   allowed_levels |-> access[1],
                                   effective_max_level |-> access[2],
                                   embed |-> embed, retrieveOk |-> retrieveOk,
                                   retrieved |-> ChunkIdList(chunks),
                                   generation |-> result.generation,
                                   auditFails |-> auditFails,
                                   rows_before |-> Len(history),
                                   raised |-> result.raised,
                                   response |-> result.payload]
    /\ UNCHANGED corpus
    /\ UNCHANGED notQueryVars

QueryNext ==
    /\ ~lastQuery.called
    /\ \E user \in Users, embed \in EmbedOutcomes, retrieveOk \in BOOLEAN,
          llm \in LlmOutcomes, auditFails \in 0..2 :
            Query(user, embed, retrieveOk, llm, auditFails)

QueryIdle ==
    /\ corpus = <<>>
    /\ history = <<>>
    /\ lastQuery = NoQuery

\* Chunk ids carry no meaning beyond identity: a table is drawn once for all
\* renamings of its ids, with the rows in a fixed order of their attributes.
AttributeRank(a) ==
    LET tier == CASE a.security_level = "LOW" -> 0
                  [] a.security_level = "MID" -> 1
                  [] a.security_level = "HIGH" -> 2
                  [] a.security_level = "VERY_HIGH" -> 3
    IN  (tier * 2 + (IF a.is_active THEN 1 ELSE 0)) * 3 + a.similarity

ChunkTables ==
    {t \in [ChunkIds -> ChunkAttributes] :
        \A c, d \in ChunkIds : c < d => AttributeRank(t[c]) <= AttributeRank(t[d])}

\* The audit table before the call: empty, or holding an earlier call's row.
PriorHistories == {<<>>, <<HistoryRow("NO_RESULTS", <<>>, "LOW", FALSE)>>}

QueryInit ==
    /\ IndexInit
    /\ ModelIdle
    /\ corpus \in ChunkTables
    /\ history \in PriorHistories
    /\ lastQuery = NoQuery
    /\ CallsIdle

Init == IndexInit /\ QueryIdle /\ ModelIdle /\ CallsIdle

Next == IndexNext

Spec == Init /\ [][Next]_vars

QuerySpec == QueryInit /\ [][QueryNext]_vars

ModelSpecInit == IndexInit /\ QueryIdle /\ ModelInit /\ CallsIdle

ModelSpec == ModelSpecInit /\ [][ModelNext]_vars

\* One call of chunk_text, on any text and any accepted size and overlap.
ChunkSpecInit ==
    /\ IndexInit /\ QueryIdle /\ ModelIdle
    /\ ChunkInit /\ ExtractIdle /\ ContextIdle /\ DetailIdle

ExtractSpecInit ==
    /\ IndexInit /\ QueryIdle /\ ModelIdle
    /\ ChunkIdle /\ ExtractInit /\ ContextIdle /\ DetailIdle

\* Calls of generate_answer on contexts of every shape, and their audit rows.
ExtractSpec == ExtractSpecInit /\ [][ExtractNext]_vars

ContextSpecInit ==
    /\ IndexInit /\ QueryIdle /\ ModelIdle
    /\ ChunkIdle /\ ExtractIdle /\ ContextInit /\ DetailIdle

\* Services of every budget building the context of chunks of every length.
ContextSpec == ContextSpecInit /\ [][ContextNext]_vars

ChunkSpec == ChunkSpecInit /\ [][ChunkNext]_vars

\* The same call on a thread that keeps running.
ChunkFairSpec == ChunkSpecInit /\ [][ChunkNext]_vars /\ WF_vars(ChunkNext)

\* The task runner acknowledging a message when it hands it to a worker
\* (Celery's default; the task sets no acks_late): every message is delivered
\* once.  The runner is fair: a step that stays possible is taken.  The
\* settings an attempt runs under may be any of Configurations, where Spec
\* runs every attempt under valid settings.
ExactlyOnceNext ==
    \/ \E level \in UploadTiers, n \in 0..MaxChunks,
          outcome \in UploadOutcomes :
            Upload(level, n, outcome)
    \/ \E w \in WorkerIds, r \in Retries : Deliver(w, r)
    \/ \E w \in WorkerIds, saveOk \in BOOLEAN : FetchAndMark(w, saveOk)
    \/ \E w \in WorkerIds, s3Ok \in BOOLEAN : Download(w, s3Ok)
    \/ \E w \in WorkerIds, config \in Configurations, extractOk \in BOOLEAN,
          inferenceOk \in BOOLEAN, got \in 0..MaxChunks :
            Process(w, config, extractOk, inferenceOk, got)
    \/ \E w \in WorkerIds, failAt \in 0..(MaxChunks + 1) : Persist(w, failAt)
    \/ \E w \in WorkerIds, saveOk \in BOOLEAN : FailureHandler(w, saveOk)
    \/ \E w \in WorkerIds : TaskRetry(w)
    \/ \E w \in WorkerIds, saveOk \in BOOLEAN : TaskPermanentSave(w, saveOk)
    \/ \E w \in WorkerIds, s3Ok \in BOOLEAN : TaskDeleteBlob(w, s3Ok)

RetrySpec == Init /\ [][ExactlyOnceNext]_vars /\ WF_vars(ExactlyOnceNext)

\* ------------------------------------------------------------------------
\* A document's text from chunk_text to the chunk table
\* ------------------------------------------------------------------------
\* process_document makes its ChunkingService without arguments: the sizes
\* are the settings'.
ScenarioInit ==
    /\ IndexInit /\ QueryIdle /\ ModelIdle /\ ExtractIdle /\ ContextIdle /\ DetailIdle
    /\ \E st \in DjangoSettings :
           chunker = [NoChunking EXCEPT !.pc = "new", !.settings = st]

\* The upload of the file whose text chunk_text was followed on: what the
\* attempts get from process_document is the chunks of that text.
UploadText(outcome) ==
    /\ chunker.pc = "returned"
    /\ \E level \in UploadTiers : Upload(level, Len(chunker.chunks), outcome)

\* Texts of one letter and the space: what _clean_text makes of other
\* whitespace is ChunkSpec's matter.
PlainTexts == {text \in Texts : \A i \in DOMAIN text : text[i] \in {"a", " "}}

\* The first worker of the pool, every message delivered once.
ScenarioNext ==
    \/ Construct
    \/ \E text \in PlainTexts : ChunkTextCall(text)
    \/ ChunkTextStart
    \/ ChunkTextWindow
    \/ ChunkTextReturn
    \/ \E outcome \in UploadOutcomes : UploadText(outcome)
    \/ \E r \in Retries : Deliver(1, r)
    \/ \E saveOk \in BOOLEAN : FetchAndMark(1, saveOk)
    \/ \E s3Ok \in BOOLEAN : Download(1, s3Ok)
    \/ \E extractOk \in BOOLEAN, inferenceOk \in BOOLEAN, got \in 0..MaxTextLen :
            Process(1, "ok", extractOk, inferenceOk, got)
    \/ \E failAt \in 0..(MaxTextLen + 1) : Persist(1, failAt)
    \/ \E saveOk \in BOOLEAN : FailureHandler(1, saveOk)
    \/ TaskRetry(1)
    \/ \E saveOk \in BOOLEAN : TaskPermanentSave(1, saveOk)
    \/ \E s3Ok \in BOOLEAN : TaskDeleteBlob(1, s3Ok)

ScenarioSpec == ScenarioInit /\ [][ScenarioNext]_vars

\* Document.security_level is an ordinary column: the row's tier is written
\* anew from outside the pipeline, at any time.
ChangeTier(level) ==
    /\ doc.exists
    /\ level # doc.security_level
    /\ doc' = [doc EXCEPT !.security_level = level]
    /\ UNCHANGED <<chunkRows, blob, content, queue, dups, workers>>
    /\ UNCHANGED notIndexVars

TierNext ==
    \/ ExactlyOnceNext
    \/ \E level \in SecurityLevel : ChangeTier(level)

\* The pipeline of RetrySpec on a document whose tier is changed under it.
TierSpec == Init /\ [][TierNext]_vars

\* ------------------------------------------------------------------------
\* index_document_task: one run of the except block, step by step
\* ------------------------------------------------------------------------
\* How the task's run ended: it returned its result, raised Retry after
\* sending itself again, or raised the permanent failure.
TaskOutcomes == {"SUCCESS", "RETRY", "FAILURE"}

\* What MinIOService.delete_file meets: the object removed, an S3Error (which
\* it logs and swallows), or another exception (which it lets through).
DeleteOutcomes == {"ok", "s3_error", "other_error"}

CaughtByTask == {S3Error, DatabaseError, ZeroChunksError}

\* index_document has raised exc in the run with request.retries = retries;
\* the row is there or not, the blob as earlier runs left it.
TaskExceptInit ==
    \E retries \in Retries, exc \in CaughtByTask, exists \in BOOLEAN,
       status \in {"PENDING", "PROCESSING", "FAILED"},
       stored \in {"present", "deleted"} :
        attempt = [pc |-> "except", retries |-> retries, exc |-> exc,
                   doc |-> [exists |-> exists, status |-> status,
                            error_message |-> <<>>],
                   blob |-> stored, blob_before |-> stored,
                   saved |-> FALSE, delete_called |-> FALSE,
                   enqueued |-> 0, outcome |-> "running"]

AttemptFrame ==
    UNCHANGED <<indexVars, queryVars, modelVars, chunkVars, extractVars,
                contextVars, request>>

\* if self.request.retries >= self.max_retries
ExceptBranch ==
    /\ attempt.pc = "except"
    /\ attempt' = [attempt EXCEPT
                      !.pc = IF RetriesExhausted(attempt.retries)
                             THEN "permanent" ELSE "retry"]
    /\ AttemptFrame

\* The fetch and the save in the inner try, the blob removed whether or not
\* they succeeded.
PermanentFetchAndSave_DeleteAnyway(getOk, saveOk) ==
    /\ attempt.pc = "permanent"
    /\ ~getOk => saveOk
    /\ attempt' =
           IF attempt.doc.exists /\ getOk /\ saveOk
           THEN [attempt EXCEPT
                    !.pc = "delete", !.saved = TRUE,
                    !.doc.status = "FAILED",
                    !.doc.error_message = PermanentMessage(attempt.exc)]
           ELSE [attempt EXCEPT !.pc = "delete"]
    /\ AttemptFrame

\* Document.objects.only(...).get and doc.save(update_fields=["status",
\* "error_message"]) in the inner try: whatever raises there is logged by the
\* inner except and the deletion is passed over.
PermanentFetchAndSave(getOk, saveOk) ==
    /\ attempt.pc = "permanent"
    /\ ~getOk => saveOk
    /\ attempt' =
           IF attempt.doc.exists /\ getOk /\ saveOk
           THEN [attempt EXCEPT
                    !.pc = "delete", !.saved = TRUE,
                    !.doc.status = "FAILED",
                    !.doc.error_message = PermanentMessage(attempt.exc)]
           ELSE [attempt EXCEPT !.pc = "raise"]
    /\ AttemptFrame

\* MinIOService.delete_file(doc.minio_key): an exception it lets through is
\* logged by the inner except.
PermanentDelete(outcome) ==
    /\ attempt.pc = "delete"
    /\ attempt' = [attempt EXCEPT
                      !.pc = "raise",
                      !.delete_called = TRUE,
                      !.blob = IF outcome = "ok" /\ attempt.blob = "present"
                               THEN "deleted" ELSE @]
    /\ AttemptFrame

\* raise Exception(...) from e
PermanentRaise ==
    /\ attempt.pc = "raise"
    /\ attempt' = [attempt EXCEPT !.pc = "ended", !.outcome = "FAILURE"]
    /\ AttemptFrame

\* raise self.retry(exc=e, countdown=countdown)
SelfRetry ==
    /\ attempt.pc = "retry"
    /\ attempt' = [attempt EXCEPT !.pc = "ended", !.outcome = "RETRY",
                                  !.enqueued = @ + 1]
    /\ AttemptFrame

TaskExceptNext ==
    \/ ExceptBranch
    \/ \E getOk \in BOOLEAN, saveOk \in BOOLEAN : PermanentFetchAndSave(getOk, saveOk)
    \/ \E outcome \in DeleteOutcomes : PermanentDelete(outcome)
    \/ PermanentRaise
    \/ SelfRetry

TaskExceptSpecInit ==
    /\ IndexInit /\ QueryIdle /\ ModelIdle
    /\ ChunkIdle /\ ExtractIdle /\ ContextIdle
    /\ TaskExceptInit /\ request = NoRequest

TaskExceptSpec ==
    TaskExceptSpecInit /\ [][TaskExceptNext]_vars /\ WF_vars(TaskExceptNext)

\* ------------------------------------------------------------------------
\* index_document: one call, statement by statement
\* ------------------------------------------------------------------------
DoesNotExist == Exc("DoesNotExist", "Document matching query does not exist")
ScratchError == Exc("OSError", "cannot create temporary file")
CommitError == Exc("DatabaseError", "commit failed")

\* The row's columns: those index_document names, and "other" for the rest
\* of them together.
Row(exists, status, message) ==
    [exists |-> exists, status |-> status, chunk_count |-> 0,
     error_message |-> message, security_level |-> "HIGH", other |-> "as uploaded"]

Columns == {"status", "chunk_count", "error_message", "security_level", "other"}

\* The row before the call: absent, fresh from the upload, or left FAILED or
\* PROCESSING by an earlier attempt.
RowsBefore ==
    {Row(FALSE, "PENDING", <<>>), Row(TRUE, "PENDING", <<>>),
     Row(TRUE, "PROCESSING", <<>>),
     Row(TRUE, "FAILED", <<Str(S3Error)>>)}

\* The database as committed: the row and the document's chunk rows.
Database(row, rows) == [doc |-> row, rows |-> rows]

CallInit ==
    \E row \in RowsBefore, n \in 0..MaxChunks :
        attempt = [pc |-> "get", n |-> n,
                   db |-> Database(row, {}), before |-> Database(row, {}),
                   work |-> Database(row, {}), txn |-> FALSE, txns |-> 0,
                   writes |-> <<>>, store_calls |-> {},
                   tmp |-> "none", unlink_failed |-> FALSE,
                   exc |-> NoExc, result |-> FALSE, raised |-> NoExc]

\* document.save(update_fields=fields) as a record of the write.
Write(fields, status) == [fields |-> fields, status |-> status]

\* Document.objects.get inside the try/except of the missing row: the
\* failure goes on to the handler.
GetDocument_NoCheck ==
    /\ attempt.pc = "get"
    /\ attempt' = IF attempt.db.doc.exists
                  THEN [attempt EXCEPT !.pc = "mark"]
                  ELSE [attempt EXCEPT !.pc = "handler", !.exc = DoesNotExist]
    /\ AttemptFrame

\* Document.objects.get(id=document_id); DoesNotExist is logged and re-raised
\* ahead of the try block.
GetDocument ==
    /\ attempt.pc = "get"
    /\ attempt' = IF attempt.db.doc.exists
                  THEN [attempt EXCEPT !.pc = "mark"]
                  ELSE [attempt EXCEPT !.pc = "ended", !.raised = DoesNotExist]
    /\ AttemptFrame

\* status = PROCESSING, save(update_fields=["status"]), ahead of the try.
MarkProcessing(saveOk) ==
    /\ attempt.pc = "mark"
    /\ attempt' =
           IF saveOk
           THEN [attempt EXCEPT
                    !.pc = "mktemp",
                    !.db.doc.status = "PROCESSING",
                    !.writes = Append(@, Write({"status"}, "PROCESSING"))]
           ELSE [attempt EXCEPT !.pc = "ended", !.raised = DatabaseError]
    /\ AttemptFrame

\* tempfile.NamedTemporaryFile(delete=False); tmp_path is set once the file
\* is there.
MakeScratch(ok) ==
    /\ attempt.pc = "mktemp"
    /\ attempt' = IF ok
                  THEN [attempt EXCEPT !.pc = "download", !.tmp = "present"]
                  ELSE [attempt EXCEPT !.pc = "handler", !.exc = ScratchError]
    /\ AttemptFrame

\* MinIOService.download_file
DownloadFile(s3Ok) ==
    /\ attempt.pc = "download"
    /\ attempt' =
           [attempt EXCEPT
               !.store_calls = @ \cup {"download"},
               !.pc = IF s3Ok THEN "process" ELSE "handler",
               !.exc = IF s3Ok THEN NoExc ELSE S3Error]
    /\ AttemptFrame

\* Steps 2 and 3: process_document, embed_batch and their checks.
ProcessAndEmbed(extractOk, inferenceOk, got) ==
    /\ attempt.pc = "process"
    /\ ~extractOk => (inferenceOk /\ got = 0)
    /\ ~inferenceOk => got = 0
    /\ attempt.n = 0 => (inferenceOk /\ got = 0)
    /\ LET res == ProcessResult(attempt.n, "ok", extractOk, inferenceOk, got)
       IN  attempt' = IF res.exc = NoExc
                      THEN [attempt EXCEPT !.pc = "atomic"]
                      ELSE [attempt EXCEPT !.pc = "handler", !.exc = res.exc]
    /\ AttemptFrame

\* with transaction.atomic(): entered.
EnterAtomic ==
    /\ attempt.pc = "atomic"
    /\ attempt' = [attempt EXCEPT !.pc = "insert", !.txn = TRUE, !.txns = @ + 1,
                                  !.work = attempt.db]
    /\ AttemptFrame

\* DocumentChunk.objects.bulk_create, inside the transaction.
BulkCreate(failAt) ==
    /\ attempt.pc = "insert"
    /\ failAt \in 0..attempt.n
    /\ LET ins == InsertRows(attempt.work.rows, 0, attempt.n,
                             attempt.db.doc.security_level, failAt)
       IN  attempt' =
               IF ins.exc = NoExc
               THEN [attempt EXCEPT !.pc = "save", !.work.rows = ins.rows]
               ELSE [attempt EXCEPT !.pc = "exit_atomic", !.work.rows = ins.rows,
                                    !.exc = ins.exc]
    /\ AttemptFrame

\* The save of the success path setting error_message back to empty too.
SaveIndexed_ClearsMessage(saveOk) ==
    /\ attempt.pc = "save"
    /\ attempt' =
           IF saveOk
           THEN [attempt EXCEPT
                    !.pc = "exit_atomic",
                    !.work.doc.chunk_count = attempt.n,
                    !.work.doc.status = "INDEXED",
                    !.work.doc.error_message = <<>>,
                    !.writes = Append(@, Write({"chunk_count", "status"}, "INDEXED"))]
           ELSE [attempt EXCEPT !.pc = "exit_atomic", !.exc = DatabaseError]
    /\ AttemptFrame

\* chunk_count and status = INDEXED, save(update_fields=["chunk_count",
\* "status"]), inside the transaction.
SaveIndexed(saveOk) ==
    /\ attempt.pc = "save"
    /\ attempt' =
           IF saveOk
           THEN [attempt EXCEPT
                    !.pc = "exit_atomic",
                    !.work.doc.chunk_count = attempt.n,
                    !.work.doc.status = "INDEXED",
                    !.writes = Append(@, Write({"chunk_count", "status"}, "INDEXED"))]
           ELSE [attempt EXCEPT !.pc = "exit_atomic", !.exc = DatabaseError]
    /\ AttemptFrame

\* The block left with the rows inserted so far kept when it failed.
ExitAtomic_NoRollback(commitOk) ==
    /\ attempt.pc = "exit_atomic"
    /\ attempt.exc # NoExc => commitOk
    /\ attempt' =
           IF attempt.exc = NoExc /\ commitOk
           THEN [attempt EXCEPT !.pc = "finally", !.txn = FALSE,
                                !.db = attempt.work, !.result = TRUE]
           ELSE [attempt EXCEPT
                    !.pc = "handler", !.txn = FALSE,
                    !.db.rows = attempt.work.rows,
                    !.exc = IF attempt.exc = NoExc THEN CommitError ELSE @]
    /\ AttemptFrame

\* The end of the with block: commit when nothing was raised in it, roll
\* back otherwise (and when the commit fails); then return True, or on to the
\* except block.
ExitAtomic(commitOk) ==
    /\ attempt.pc = "exit_atomic"
    /\ attempt.exc # NoExc => commitOk
    /\ attempt' =
           IF attempt.exc = NoExc /\ commitOk
           THEN [attempt EXCEPT !.pc = "finally", !.txn = FALSE,
                                !.db = attempt.work, !.result = TRUE]
           ELSE [attempt EXCEPT
                    !.pc = "handler", !.txn = FALSE,
                    !.exc = IF attempt.exc = NoExc THEN CommitError ELSE @]
    /\ AttemptFrame

\* except Exception: FAILED and the message saved, then re-raise.
Handler(saveOk) ==
    /\ attempt.pc = "handler"
    /\ LET res == FailureHandlerSave(attempt.db.doc, attempt.exc, saveOk)
       IN  attempt' =
               [attempt EXCEPT
                   !.pc = "finally",
                   !.db.doc = res.doc,
                   !.raised = res.raised,
                   !.writes = IF saveOk
                              THEN Append(@, Write({"status", "error_message"}, "FAILED"))
                              ELSE @]
    /\ AttemptFrame

\* The finally block removing the scratch file only when the call succeeded.
Finally_OnSuccessOnly(unlinkOk) ==
    /\ attempt.pc = "finally"
    /\ attempt.tmp # "present" => unlinkOk
    /\ attempt' =
           IF attempt.tmp = "present" /\ attempt.result
           THEN [attempt EXCEPT
                    !.pc = "ended",
                    !.tmp = IF unlinkOk THEN "removed" ELSE @,
                    !.unlink_failed = ~unlinkOk]
           ELSE [attempt EXCEPT !.pc = "ended"]
    /\ AttemptFrame

\* finally: os.unlink(tmp_path) when the path is set and the file exists; an
\* OSError is logged.
Finally(unlinkOk) ==
    /\ attempt.pc = "finally"
    /\ attempt.tmp # "present" => unlinkOk
    /\ attempt' =
           IF attempt.tmp = "present"
           THEN [attempt EXCEPT
                    !.pc = "ended",
                    !.tmp = IF unlinkOk THEN "removed" ELSE @,
                    !.unlink_failed = ~unlinkOk]
           ELSE [attempt EXCEPT !.pc = "ended"]
    /\ AttemptFrame

CallNext ==
    \/ GetDocument
    \/ \E saveOk \in BOOLEAN : MarkProcessing(saveOk)
    \/ \E ok \in BOOLEAN : MakeScratch(ok)
    \/ \E s3Ok \in BOOLEAN : DownloadFile(s3Ok)
    \/ \E extractOk \in BOOLEAN, inferenceOk \in BOOLEAN, got \in 0..MaxChunks :
            ProcessAndEmbed(extractOk, inferenceOk, got)
    \/ EnterAtomic
    \/ \E failAt \in 0..MaxChunks : BulkCreate(failAt)
    \/ \E saveOk \in BOOLEAN : SaveIndexed(saveOk)
    \/ \E commitOk \in BOOLEAN : ExitAtomic(commitOk)
    \/ \E saveOk \in BOOLEAN : Handler(saveOk)
    \/ \E unlinkOk \in BOOLEAN : Finally(unlinkOk)

CallSpecInit ==
    /\ IndexInit /\ QueryIdle /\ ModelIdle
    /\ ChunkIdle /\ ExtractIdle /\ ContextIdle
    /\ CallInit /\ request = NoRequest

CallSpec == CallSpecInit /\ [][CallNext]_vars /\ WF_vars(CallNext)

\* ------------------------------------------------------------------------
\* DocumentUploadView.perform_create: one request, statement by statement
\* ------------------------------------------------------------------------
KeyError == Exc("KeyError", "title")
UploadError == Exc("S3Error", "upload failed")
BrokerError == Exc("OperationalError", "broker unreachable")

NoRow == [exists |-> FALSE]

RequestFrame ==
    UNCHANGED <<indexVars, queryVars, modelVars, chunkVars, extractVars,
                contextVars, attempt>>

\* The validated request: its security_level, whether the file name has an
\* extension, whether the user is authenticated.
RequestInit ==
    \E level \in SecurityLevel, dotted \in BOOLEAN, authenticated \in BOOLEAN :
        request = [pc |-> "upload", level |-> level,
                   file_type |-> IF dotted THEN "pdf" ELSE "bin",
                   uploaded_by |-> IF authenticated THEN "user" ELSE "None",
                   object_name |-> FALSE, blob |-> "absent", uploaded |-> FALSE,
                   row |-> NoRow, committed |-> NoRow,
                   hook |-> FALSE, scheduled |-> 0,
                   failed |-> FALSE, exc |-> NoExc, raised |-> NoExc]

\* generate_object_key, then MinIOService.upload_file.
UploadFile(outcome) ==
    /\ request.pc = "upload"
    /\ request' =
           CASE outcome = "key_error" ->
                    [request EXCEPT !.pc = "except", !.failed = TRUE, !.exc = KeyError]
             [] outcome = "s3_error" ->
                    [request EXCEPT !.pc = "except", !.object_name = TRUE,
                                    !.failed = TRUE, !.exc = UploadError]
             [] outcome = "ok" ->
                    [request EXCEPT !.pc = "save", !.object_name = TRUE,
                                    !.blob = "present", !.uploaded = TRUE]
    /\ RequestFrame

\* serializer.save(...) with status PENDING, inside the transaction.
SerializerSave(saveOk) ==
    /\ request.pc = "save"
    /\ request' =
           IF saveOk
           THEN [request EXCEPT !.pc = "on_commit", !.row = NewDocument(request.level)]
           ELSE [request EXCEPT !.pc = "except", !.failed = TRUE, !.exc = DatabaseError]
    /\ RequestFrame

\* transaction.on_commit(lambda: index_document_task.delay(document.id))
RegisterOnCommit ==
    /\ request.pc = "on_commit"
    /\ request' = [request EXCEPT !.pc = "exit", !.hook = TRUE]
    /\ RequestFrame

\* except Exception: delete_file(object_name) when object_name is set, its own
\* failure logged; then re-raise.
ExceptCleanup(outcome) ==
    /\ request.pc = "except"
    /\ ~request.object_name => outcome = "ok"
    /\ request' =
           [request EXCEPT
               !.pc = "exit",
               !.blob = IF request.object_name /\ outcome = "ok" /\ @ = "present"
                        THEN "deleted" ELSE @,
               !.raised = request.exc]
    /\ RequestFrame

\* The end of @transaction.atomic: roll back when the function raised,
\* commit otherwise; a failed commit rolls back and raises.
AtomicExit(commitOk) ==
    /\ request.pc = "exit"
    /\ request.raised # NoExc => commitOk
    /\ request' =
           IF request.raised # NoExc
           THEN [request EXCEPT !.pc = "ended", !.row = NoRow, !.hook = FALSE]
           ELSE IF commitOk
           THEN [request EXCEPT !.pc = IF request.hook THEN "hook" ELSE "ended",
                                !.committed = request.row]
           ELSE [request EXCEPT !.pc = "ended", !.row = NoRow, !.hook = FALSE,
                                !.failed = TRUE, !.raised = CommitError]
    /\ RequestFrame

\* The on_commit hook, run after the commit: index_document_task.delay.
RunOnCommit(brokerOk) ==
    /\ request.pc = "hook"
    /\ request' =
           IF brokerOk
           THEN [request EXCEPT !.pc = "ended", !.scheduled = @ + 1]
           ELSE [request EXCEPT !.pc = "ended", !.failed = TRUE,
                                !.raised = BrokerError]
    /\ RequestFrame

RequestNext ==
    \/ \E outcome \in {"ok", "s3_error", "key_error"} : UploadFile(outcome)
    \/ \E saveOk \in BOOLEAN : SerializerSave(saveOk)
    \/ RegisterOnCommit
    \/ \E outcome \in DeleteOutcomes : ExceptCleanup(outcome)
    \/ \E commitOk \in BOOLEAN : AtomicExit(commitOk)
    \/ \E brokerOk \in BOOLEAN : RunOnCommit(brokerOk)

RequestSpecInit ==
    /\ IndexInit /\ QueryIdle /\ ModelIdle
    /\ ChunkIdle /\ ExtractIdle /\ ContextIdle
    /\ attempt = NoAttempt /\ RequestInit

RequestSpec == RequestSpecInit /\ [][RequestNext]_vars

\* ------------------------------------------------------------------------
\* Properties of the indexing pipeline
\* ------------------------------------------------------------------------

\* C1: in every committed state, a document whose status is INDEXED has
\* chunk_count equal to the number of DocumentChunk rows that reference it.
C1_IndexedCountMatchesRows ==
    doc.status = "INDEXED" => doc.chunk_count = Cardinality(chunkRows)

\* An INDEXED document with two rows, reached in a run with a duplicate
\* delivery.
C1_Witness ==
    /\ doc.status = "INDEXED"
    /\ Cardinality(chunkRows) = 2
    /\ dups > 0

PersistenceFailures == {RowInsertError, IntegrityError}

\* The step in which worker w's index_document call ends by raising from
\* its except block.
HandlerEnds(w) ==
    /\ workers[w].pc = "handler"
    /\ workers'[w].pc = "task_except"

\* C2: when the insert of a chunk row fails inside the persistence
\* transaction, the attempt ends with the document FAILED, no chunk row for
\* the document and chunk_count not updated.
C2_InsertFailureLeavesFailedAndNoRows ==
    [][\A w \in WorkerIds :
          (HandlerEnds(w) /\ workers[w].exc \in PersistenceFailures)
              => /\ doc'.status = "FAILED"
                 /\ chunkRows' = {}
                 /\ doc'.chunk_count = 0]_vars

RetryPossible ==
    \/ \E r \in Retries : queue[r] > 0
    \/ \E w \in WorkerIds :
          workers[w].pc # "idle" /\ ~RetriesExhausted(workers[w].retries)

\* C3: the blob is deleted only by an attempt whose retry count has reached
\* max_retries, never while a retry of the document's indexing is possible,
\* and no attempt for the document starts after the deletion.
C3_BlobDeletedOnlyWhenNoRetryRemains ==
    [][/\ (blob # "deleted" /\ blob' = "deleted")
            => \E w \in WorkerIds :
                  /\ workers[w].pc = "delete_blob"
                  /\ workers[w].retries = max_retries
                  /\ workers'[w].pc = "idle"
       /\ blob' = "deleted" => ~RetryPossible'
       /\ blob = "deleted"
            => \A w \in WorkerIds :
                  workers'[w].pc = "fetch" => workers[w].pc = "fetch"]_vars

AllowedTransitions ==
    {<<"PENDING", "PROCESSING">>, <<"PROCESSING", "INDEXED">>,
     <<"PROCESSING", "FAILED">>, <<"FAILED", "PROCESSING">>}

\* C4: every change of Document.status is PENDING->PROCESSING,
\* PROCESSING->INDEXED, PROCESSING->FAILED or FAILED->PROCESSING; an INDEXED
\* document keeps its status.
C4_StatusTransitions ==
    [][(doc.exists /\ doc'.status # doc.status)
          => <<doc.status, doc'.status>> \in AllowedTransitions]_vars

\* C5: whenever a pipeline stage raises inside index_document, the call ends
\* with the document FAILED, error_message equal to the exception's message,
\* and the same exception re-raised.
C5_FailureRecordedAndReraised ==
    [][\A w \in WorkerIds :
          HandlerEnds(w)
              => /\ doc'.status = "FAILED"
                 /\ doc'.error_message = <<Str(workers[w].exc)>>
                 /\ workers'[w].exc = workers[w].exc]_vars

\* ------------------------------------------------------------------------
\* Properties of the query pipeline (checked under QuerySpec)
\* ------------------------------------------------------------------------
ProvenanceTags == {"LLM", "EXTRACTIVE", "NO_RESULTS", "ERROR"}

RowsAdded == Len(history) - lastQuery.rows_before

SuccessKeys == {"success", "query_id", "answer", "source", "chunks_used",
                "latency_ms", "sources"}
FailureKeys == {"success", "query_id", "error", "latency_ms"}

IsSuccessPayload(p) == DOMAIN p = SuccessKeys /\ p.success
IsFailurePayload(p) == DOMAIN p = FailureKeys /\ ~p.success

\* The call's insert of its LLM/EXTRACTIVE row was attempted and failed.
AnswerInsertFailed == lastQuery.retrieved # <<>> /\ lastQuery.auditFails >= 1

\* An exception reached the except block of query.
ExceptionInTry ==
    \/ lastQuery.embed # "ok"
    \/ ~lastQuery.retrieveOk
    \/ AnswerInsertFailed

\* The insert of the NO_RESULTS row failed.
NoResultsInsertFailed ==
    /\ ~ExceptionInTry
    /\ lastQuery.retrieved = <<>>
    /\ lastQuery.auditFails >= 1

\* The insert of the ERROR row failed.
ErrorInsertFailed ==
    /\ ExceptionInTry
    /\ lastQuery.auditFails >= (IF AnswerInsertFailed THEN 2 ELSE 1)

Permitted(c) ==
    /\ corpus[c].is_active
    /\ corpus[c].security_level \in Elements(lastQuery.allowed_levels)

\* C8: every chunk that query returns in sources, counts in chunks_used or
\* records in retrieved_chunk_ids is active and has a security_level in the
\* tier set the Access Resolver returned for the user in that call.
C8_OnlyPermittedChunksReturned ==
    (lastQuery.called /\ lastQuery.raised = NoExc) =>
        /\ lastQuery.response.success =>
              /\ \A i \in DOMAIN lastQuery.response.sources :
                    Permitted(lastQuery.response.sources[i].chunk_id)
              /\ lastQuery.response.chunks_used = Len(lastQuery.response.sources)
              /\ lastQuery.response.chunks_used =
                    Cardinality({lastQuery.response.sources[i].chunk_id :
                                    i \in DOMAIN lastQuery.response.sources})
        /\ \A k \in (lastQuery.rows_before + 1)..Len(history) :
              /\ \A c \in Elements(history[k].retrieved_chunk_ids) : Permitted(c)
              /\ history[k].retrieved_chunk_count = Len(history[k].retrieved_chunk_ids)
              /\ lastQuery.response.success =>
                    history[k].retrieved_chunk_count = lastQuery.response.chunks_used

\* An inactive chunk of a permitted tier scores higher than the chunk returned.
C8_Witness ==
    /\ lastQuery.called
    /\ lastQuery.response.success
    /\ Len(lastQuery.response.sources) = 1
    /\ Len(history) = lastQuery.rows_before + 1
    /\ history[Len(history)].retrieved_chunk_ids = lastQuery.retrieved
    /\ \E c \in ChunkIds :
          /\ ~corpus[c].is_active
          /\ corpus[c].security_level \in Elements(lastQuery.allowed_levels)
          /\ corpus[c].similarity > lastQuery.response.sources[1].similarity_score

\* The corpus without the chunks whose tier is outside allowed_levels.
Purge(table, allowed_levels) ==
    [c \in {d \in DOMAIN table : table[d].security_level \in Elements(allowed_levels)}
        |-> table[c]]

\* C9: noninterference by tier.  What a call can answer, name as provenance,
\* list as sources and record as retrieved ids on a corpus is what it can on
\* that corpus without the chunks outside the user's permitted tiers (so two
\* corpora differing only in such chunks yield the same); and an EMPLOYEE
\* (tier MID) querying a corpus of HIGH chunks only gets NO_RESULTS with an
\* empty sources list.
C9_NoninterferenceByTier ==
    lastQuery.called =>
        LET allowed == lastQuery.allowed_levels
            purged == Purge(corpus, allowed)
        IN  /\ RetrieveChunks(corpus, allowed) = RetrieveChunks(purged, allowed)
            /\ \E chunks \in RetrievalOptions(purged, allowed, lastQuery.embed,
                                              lastQuery.retrieveOk) :
                  LET llm == IF lastQuery.generation = "not_called"
                             THEN "ok" ELSE lastQuery.generation
                      onPurged == QueryResult(SubSeq(history, 1, lastQuery.rows_before),
                                              <<allowed, lastQuery.effective_max_level>>,
                                              lastQuery.embed, lastQuery.retrieveOk,
                                              chunks, llm, lastQuery.auditFails)
                  IN  /\ onPurged.raised = lastQuery.raised
                      /\ onPurged.generation = lastQuery.generation
                      /\ onPurged.payload = lastQuery.response
                      /\ onPurged.history = history
                      /\ ChunkIdList(chunks) = lastQuery.retrieved
            /\ (/\ lastQuery.user = UserWithRole("EMPLOYEE")
                /\ \A c \in ChunkIds : corpus[c].security_level = "HIGH"
                /\ lastQuery.embed = "ok" /\ lastQuery.retrieveOk)
                  => /\ lastQuery.response.success
                     /\ lastQuery.response.source = "NO_RESULTS"
                     /\ lastQuery.response.sources = <<>>
                     /\ lastQuery.retrieved = <<>>

\* An active chunk of a tier outside the permitted set scores higher than the
\* chunk returned.
C9_Witness ==
    /\ lastQuery.called
    /\ lastQuery.response.success
    /\ Len(lastQuery.response.sources) = 1
    /\ \E c \in ChunkIds :
          /\ corpus[c].is_active
          /\ corpus[c].security_level \notin Elements(lastQuery.allowed_levels)
          /\ corpus[c].similarity > lastQuery.response.sources[1].similarity_score

TierRank(l) ==
    CASE l = "LOW" -> 0 [] l = "MID" -> 1 [] l = "HIGH" -> 2 [] l = "VERY_HIGH" -> 3

IsAscending(levels) ==
    \A i, j \in DOMAIN levels : i < j => TierRank(levels[i]) < TierRank(levels[j])

ResolvedTo(levels, max_level) ==
    /\ lastQuery.allowed_levels = levels
    /\ lastQuery.effective_max_level = max_level

\* C10: for every role of the table the resolver returns exactly the tiers at
\* or below the role's maximum tier (LOW < MID < HIGH < VERY_HIGH) and that
\* maximum: GUEST -> ([LOW], LOW), EMPLOYEE -> ([LOW, MID], MID),
\* MANAGER -> ([LOW, MID, HIGH], HIGH), CEO and VICE_PRESIDENT -> (all four,
\* VERY_HIGH).
C10_RoleTable ==
    (lastQuery.called /\ ~lastQuery.user.is_none /\ lastQuery.user.role \in Roles) =>
        /\ Elements(lastQuery.allowed_levels) =
              {l \in SecurityLevel : TierRank(l) <= TierRank(lastQuery.effective_max_level)}
        /\ IsAscending(lastQuery.allowed_levels)
        /\ lastQuery.user.role = "GUEST" => ResolvedTo(<<"LOW">>, "LOW")
        /\ lastQuery.user.role = "EMPLOYEE" => ResolvedTo(<<"LOW", "MID">>, "MID")
        /\ lastQuery.user.role = "MANAGER" => ResolvedTo(<<"LOW", "MID", "HIGH">>, "HIGH")
        /\ lastQuery.user.role \in {"CEO", "VICE_PRESIDENT"}
              => ResolvedTo(<<"LOW", "MID", "HIGH", "VERY_HIGH">>, "VERY_HIGH")

\* A MANAGER's call was resolved and retrieved a HIGH chunk.
C10_Witness ==
    /\ lastQuery.called
    /\ lastQuery.user = UserWithRole("MANAGER")
    /\ lastQuery.effective_max_level = "HIGH"
    /\ \E c \in Elements(lastQuery.retrieved) : corpus[c].security_level = "HIGH"

\* The role's entry in the fixed table; identities outside it have the lowest.
TableEntry(user) ==
    IF ~user.is_none /\ user.role \in DOMAIN ROLE_TO_MAX_LEVEL
    THEN ROLE_TO_MAX_LEVEL[user.role]
    ELSE "LOW"

\* C11: fail-closed resolution.  None and every identity whose role is not in
\* the table resolve to ([LOW], LOW) without raising, and no identity resolves
\* to a tier set containing a tier above its role's table entry.
C11_FailClosedResolution ==
    lastQuery.called =>
        /\ (lastQuery.user.is_none \/ lastQuery.user.role \notin Roles)
              => /\ ResolvedTo(<<"LOW">>, "LOW")
                 /\ lastQuery.raised = NoExc
        /\ \A l \in Elements(lastQuery.allowed_levels) :
              TierRank(l) <= TierRank(TableEntry(lastQuery.user))

\* An identity with an unknown role queried a corpus whose best active chunk
\* is above LOW, and got nothing from it.
C11_Witness ==
    /\ lastQuery.called
    /\ lastQuery.user = UserWithRole("INTERN")
    /\ lastQuery.embed = "ok" /\ lastQuery.retrieveOk
    /\ \E c \in ChunkIds :
          /\ corpus[c].is_active
          /\ corpus[c].security_level = "MID"
          /\ corpus[c].similarity >= SIMILARITY_THRESHOLD
    /\ lastQuery.retrieved = <<>>

\* ------------------------------------------------------------------------
\* Properties of the model services (checked under ModelSpec)
\* ------------------------------------------------------------------------
Generated(t) == At(t, "generate", "done")

\* C12: generate_answer never raises.  When the model is unavailable or does
\* not load, when the result is empty or malformed, when the answer is empty
\* once the prompt is stripped, or when inference throws, it returns the
\* extractive answer with flag False; flag True comes only with a non-empty
\* answer produced by the model.
C12_GenerateAnswerNeverRaises ==
    \A t \in ThreadIds :
        Generated(t) =>
            /\ threads[t].raised = NoExc
            /\ threads[t].llm # "ok" =>
                  /\ ~threads[t].used_llm
                  /\ threads[t].answer = GenerateExtractive(threads[t].context)
            /\ threads[t].used_llm =>
                  /\ threads[t].llm = "ok"
                  /\ threads[t].loaded
                  /\ threads[t].answer # <<>>
                  /\ threads[t].answer = <<"llm answer", threads[t].context>>
            /\ ~threads[t].loaded => threads[t].llm = "unavailable"

\* One call fell back because the model did not load, the other because the
\* answer was empty once the prompt was stripped.
C12_Witness ==
    /\ Generated(1) /\ threads[1].llm = "unavailable" /\ ~threads[1].used_llm
    /\ Generated(2) /\ threads[2].llm = "empty_answer" /\ ~threads[2].used_llm

\* ------------------------------------------------------------------------
\* Model errors and the NO_RESULTS path in query (checked under QuerySpec)
\* ------------------------------------------------------------------------
\* The generation model was called and did not produce an answer.
GenerationModelError == lastQuery.generation \in LlmOutcomes \ {"ok"}

\* The embedding model did not load, or its inference raised.
EmbeddingModelError == lastQuery.embed = "inference_failed"

ExtractiveSuccess ==
    /\ IsSuccessPayload(lastQuery.response)
    /\ lastQuery.response.source = "EXTRACTIVE"

\* C13 (as claimed): in query, an error of a model the pipeline uses (load
\* failure, malformed or failed inference) never surfaces as a failure: the
\* response has success=True with provenance EXTRACTIVE, never an ERROR outcome.
C13_ModelErrorsBecomeExtractive ==
    (lastQuery.called /\ lastQuery.auditFails = 0
        /\ (GenerationModelError \/ EmbeddingModelError))
        => /\ ExtractiveSuccess
           /\ history[Len(history)].response_source # "ERROR"

\* C13 (amended): in query, an error of the generation model (unavailable or
\* failing to load, failed inference, empty or malformed result, empty answer)
\* never surfaces as a failure: when the audit row is written the response has
\* success=True with provenance EXTRACTIVE and the extractive answer, and the
\* row's response_source is EXTRACTIVE.  An error of the embedding model (load
\* failure or failed inference) is not converted: query returns success=False
\* with the exception's message and records an ERROR row, and the generation
\* engine is not called.
C13_GenerationErrorsBecomeExtractive ==
    lastQuery.called =>
        /\ (GenerationModelError /\ lastQuery.auditFails = 0) =>
              /\ ExtractiveSuccess
              /\ lastQuery.response.answer[1] = "extractive answer"
              /\ history[Len(history)].response_source = "EXTRACTIVE"
        /\ GenerationModelError =>
              /\ lastQuery.raised = NoExc
              /\ ~lastQuery.response.success
                    => lastQuery.response.error = Str(AuditWriteError)
        /\ EmbeddingModelError =>
              /\ IsFailurePayload(lastQuery.response)
              /\ lastQuery.response.error = Str(InferenceError)
              /\ lastQuery.generation = "not_called"
              /\ lastQuery.auditFails = 0 =>
                    history[Len(history)].response_source = "ERROR"

\* The generation model returned a malformed result and the call answered
\* from the context of the chunk it retrieved.
C13_Witness ==
    /\ lastQuery.called
    /\ lastQuery.generation = "malformed"
    /\ lastQuery.response.success
    /\ lastQuery.response.source = "EXTRACTIVE"
    /\ lastQuery.response.chunks_used = 1

Messages(q) == q[0] + q[1] + q[2] + q[3]

Running(ws) == {w \in WorkerIds : ws[w].pc # "idle"}

OneMore(q, r) == [q EXCEPT ![r] = @ + 1]

OneLess(q, r) == [q EXCEPT ![r] = @ - 1]

Ended == Messages(queue) = 0 /\ Running(workers) = {}

C16_AttemptSteps ==
    \A w \in WorkerIds :
        /\ (workers[w].pc = "idle" /\ workers'[w].pc # "idle") =>
                /\ workers'[w].retries \in 0..max_retries
                /\ queue[workers'[w].retries] > 0
                /\ queue' = OneLess(queue, workers'[w].retries)
        /\ (workers[w].pc = "task_except" /\ workers[w].retries < max_retries) =>
                (workers'[w] # workers[w] =>
                    /\ workers'[w].pc = "idle"
                    /\ queue' = OneMore(queue, workers[w].retries + 1))
        /\ (workers[w].pc = "task_except" /\ workers[w].retries >= max_retries) =>
                queue' = queue
        /\ (workers[w].pc \notin {"idle", "task_except"} /\ workers'[w] # workers[w]) =>
                queue' = queue

C17_ConfigurationErrorNotRetried ==
    [][\A w \in WorkerIds :
          (/\ workers[w].pc = "task_except"
           /\ workers[w].exc \in ConfigurationErrors
           /\ workers'[w] # workers[w]) => queue' = queue]_vars

\* ------------------------------------------------------------------------
\* C18: once no attempt for a committed document is running or scheduled,
\* the document is INDEXED, or FAILED with a recorded reason; it is not left
\* PENDING or PROCESSING.
\* ------------------------------------------------------------------------
Settled(d) ==
    \/ d.status = "INDEXED"
    \/ d.status = "FAILED" /\ d.error_message # <<>>

C18_EndsIndexedOrFailed == (doc.exists /\ Ended) => Settled(doc)

\* ------------------------------------------------------------------------
\* C19: when two threads make the first embedding or generation call at the
\* same time, no interleaving of their load steps raises or leaves a
\* half-initialised state: every load call that has returned holds a
\* tokenizer and a model and raised nothing, and once all calls have
\* returned the embedder and the registry are either untouched or complete.
\* ------------------------------------------------------------------------
Embedded(t) == At(t, "embed", "done")

AllReturned == \A t \in ThreadIds : threads[t].pc = "done"

Untouched(holder) == \A f \in DOMAIN holder : holder[f] = "None"

Whole(holder) == \A f \in DOMAIN holder : holder[f] # "None"

C19_ConcurrentFirstLoadIsSafe ==
    /\ \A t \in ThreadIds :
            Embedded(t) =>
                /\ threads[t].raised = NoExc
                /\ threads[t].tokenizer # "None"
                /\ threads[t].model # "None"
    /\ \A t \in ThreadIds : Generated(t) => threads[t].raised = NoExc
    /\ AllReturned =>
            /\ Untouched(embedder) \/ Whole(embedder)
            /\ Untouched(llmRegistry) \/ Whole(llmRegistry)

\* ------------------------------------------------------------------------
\* C20: for every text and every size and overlap with overlap < size, the
\* windows chunk_text returns satisfy: every window has at most size
\* characters; two adjacent windows share exactly overlap characters, the
\* last overlap characters of the one being the first of the next, unless
\* the later one is a tail window, shorter than size; and the first window
\* followed by what each later window adds beyond the overlap is the
\* whitespace-normalised text.
\* ------------------------------------------------------------------------
Last(text, k) == SubSeq(text, Len(text) - k + 1, Len(text))

First(text, k) == SubSeq(text, 1, k)

Beyond(text, k) == SubSeq(text, k + 1, Len(text))

RECURSIVE Reconstructed(_, _)
Reconstructed(windows, overlap) ==
    IF windows = <<>> THEN <<>>
    ELSE IF Len(windows) = 1 THEN windows[1]
    ELSE Reconstructed(SubSeq(windows, 1, Len(windows) - 1), overlap)
            \o Beyond(windows[Len(windows)], overlap)

C20_WindowsCoverNormalisedText ==
    chunker.pc = "returned" =>
        LET windows == chunker.chunks
            size == chunker.chunk_size
            overlap == chunker.chunk_overlap
        IN  /\ \A i \in 1..Len(windows) : Len(windows[i]) <= size
            /\ \A i \in 1..(Len(windows) - 1) :
                    Len(windows[i + 1]) = size =>
                        /\ Len(windows[i]) >= overlap
                        /\ Last(windows[i], overlap) = First(windows[i + 1], overlap)
            /\ Reconstructed(windows, overlap) = clean_text(chunker.text)

\* ------------------------------------------------------------------------
\* C21: constructing a ChunkingService with overlap >= size raises ValueError
\* for every pair of integers the caller passes, and no service with
\* overlap >= size is ever constructed.
\* ------------------------------------------------------------------------
ConstructorReturned == chunker.pc \notin {"idle", "new"}

PassedOverlapNotBelowSize ==
    /\ chunker.arg_size.given /\ chunker.arg_overlap.given
    /\ chunker.arg_overlap.value >= chunker.arg_size.value

C21_OverlapNotBelowSizeRaises ==
    ConstructorReturned =>
        /\ PassedOverlapNotBelowSize =>
              chunker.pc = "raised" /\ chunker.raised.type = "ValueError"
        /\ chunker.pc # "raised" => chunker.chunk_overlap < chunker.chunk_size

\* ------------------------------------------------------------------------
\* C22: chunk_text returns the empty list for an empty or all-whitespace
\* text, and does not raise; for any other text every chunk returned is
\* non-empty and has no leading or trailing whitespace; and the call
\* terminates: every round of the loop advances the window by
\* size - overlap >= 1, and a call that was made returns.
\* ------------------------------------------------------------------------
Blank(text) == \A i \in 1..Len(text) : text[i] \in Whitespace

C22_ChunksReturned ==
    chunker.pc = "returned" =>
        /\ chunker.raised = NoExc
        /\ Blank(chunker.text) => chunker.chunks = <<>>
        /\ \A i \in 1..Len(chunker.chunks) :
              /\ chunker.chunks[i] # <<>>
              /\ Strip(chunker.chunks[i]) = chunker.chunks[i]

C22_WindowAdvances ==
    (chunker.pc = "loop" /\ chunker'.pc = "loop") =>
        /\ chunker.chunk_size - chunker.chunk_overlap >= 1
        /\ chunker'.start = chunker.start + (chunker.chunk_size - chunker.chunk_overlap)
        /\ chunker.start < Len(chunker.cleaned)

C22_ChunkTextStripsAndTerminates ==
    /\ []C22_ChunksReturned
    /\ [][C22_WindowAdvances]_vars
    /\ (chunker.pc = "called" ~> chunker.pc = "returned")

C22_Witness ==
    /\ chunker.pc = "returned"
    /\ chunker.chunk_size = 2 /\ chunker.chunk_overlap = 0
    /\ chunker.text = <<"\n", "a", " ">>
    /\ chunker.chunks = <<<<"a">>>>

\* ------------------------------------------------------------------------
\* C23
\* ------------------------------------------------------------------------
ModelFailed == extractive.llm # "ok"
Answered == extractive.pc \in {"answered", "returned", "failed"}

\* The segments of the context's text as they stand in it, the first three.
Verbatim == JoinWith(<<".">>, Limit(extractive.segments, 3))

Kept ==
    LET normal == [i \in DOMAIN extractive.segments |->
                      Strip(ReplaceNewlines(extractive.segments[i]))]
    IN  SelectSeq(normal, NonEmpty)

ContextReturned == builder.pc = "returned"

\* The labelled texts of the first n chunks, in characters.
RECURSIVE PrefixLength(_, _)
PrefixLength(chunks, n) ==
    IF n = 0 THEN 0 ELSE PrefixLength(chunks, n - 1) + LabelledLength(chunks[n])

\* C24: the context holds a prefix of the chunks, in their order and under
\* their numbers; every text of it was within the budget when added; if a
\* chunk is left out, the first one left out would have exceeded the budget,
\* and no chunk after it is included.
C24_ContextIsPrefixUpToFirstOverflow ==
    ContextReturned =>
        LET n == Len(builder.parts)
            chunks == builder.chunks
        IN  /\ n <= Len(chunks)
            /\ \A k \in 1..n :
                   /\ builder.parts[k] = [source |-> k, chunk |-> chunks[k].id]
                   /\ PrefixLength(chunks, k) <= builder.max_context_length
            /\ n < Len(chunks) =>
                   PrefixLength(chunks, n + 1) > builder.max_context_length

\* A chunk over the budget after one that fitted, and behind it one that
\* would have fitted and is not in the context.
C24_Witness ==
    /\ ContextReturned
    /\ Len(builder.parts) = 1
    /\ Len(builder.chunks) = 3
    /\ PrefixLength(builder.chunks, 1) + LabelledLength(builder.chunks[3])
           <= builder.max_context_length

\* ------------------------------------------------------------------------
\* C25
\* ------------------------------------------------------------------------
\* C25: the context string returned by _build_context is no longer than the
\* service's max_context_length.
C25_ContextWithinBudget ==
    ContextReturned => builder.context_length <= builder.max_context_length

\* ------------------------------------------------------------------------
\* C26
\* ------------------------------------------------------------------------
Retrieved == lastQuery.called /\ lastQuery.embed = "ok" /\ lastQuery.retrieveOk

\* The chunks the call may return: active, of a permitted tier, at or above
\* the threshold.
Eligible ==
    {c \in ChunkIds : Permitted(c) /\ corpus[c].similarity >= SIMILARITY_THRESHOLD}

NothingToIndex == {ZeroChunksError, MismatchError}

\* C27: an attempt whose chunking yields no chunk, or whose embeddings are not
\* as many as its chunks, does not reach the insert (it raises); when its
\* handler ends, the document is FAILED with the error's message and the
\* chunk table is as it was; and no step leaves the document INDEXED with a
\* chunk_count of zero or without rows.
C27_EmptyOrMismatchedFails ==
    [][/\ \A w \in WorkerIds :
             /\ (workers[w].pc = "process" /\ workers'[w].pc = "persist")
                    => (content >= 1 /\ workers'[w].chunks = content)
             /\ (HandlerEnds(w) /\ workers[w].exc \in NothingToIndex)
                    => /\ doc'.status = "FAILED"
                       /\ doc'.error_message = <<Str(workers[w].exc)>>
                       /\ chunkRows' = chunkRows
       /\ doc'.status = "INDEXED"
              => (doc'.chunk_count >= 1 /\ chunkRows' # {})]_vars

\* ------------------------------------------------------------------------
\* C28
\* ------------------------------------------------------------------------
InAttempt(w) == workers[w].pc \in {"download", "process", "persist"}

\* C28: the tier an attempt holds is the Document row's tier at its fetch and
\* stays the attempt's to its insert; every chunk row a step writes is written
\* by an attempt's insert with that tier; a row once persisted stays as it is;
\* and a change of the document's tier leaves the chunk table as it was.
C28_ChunkTierIsParentTierAtIndexing ==
    [][/\ \A w \in WorkerIds :
             /\ (workers[w].pc = "fetch" /\ workers'[w].pc = "download")
                    => workers'[w].level = doc.security_level
             /\ (InAttempt(w) /\ InAttempt(w)')
                    => workers'[w].level = workers[w].level
       /\ \A r \in chunkRows' \ chunkRows :
             \E w \in WorkerIds :
                 /\ workers[w].pc = "persist"
                 /\ workers'[w].pc = "idle"
                 /\ r.security_level = workers[w].level
       /\ chunkRows \subseteq chunkRows'
       /\ doc'.security_level # doc.security_level => chunkRows' = chunkRows]_vars

\* An indexed document whose tier was changed since its attempt read it: the
\* rows keep the tier the attempt read.
C28_Witness ==
    /\ doc.status = "INDEXED"
    /\ chunkRows # {}
    /\ \A r \in chunkRows : r.security_level # doc.security_level

\* ------------------------------------------------------------------------
\* C29
\* ------------------------------------------------------------------------
\* ceil(a / b) for b > 0
Ceil(a, b) == (a + b - 1) \div b

Stride == chunker.chunk_size - chunker.chunk_overlap

WindowStarts == {k * Stride : k \in 0..Len(chunker.cleaned)} \cap 0..(Len(chunker.cleaned) - 1)

NoEmptyWindow ==
    \A start \in WindowStarts :
        Strip(Slice(chunker.cleaned, start, start + chunker.chunk_size)) # <<>>

\* C29: an INDEXED document whose normalised text has length L and gives no
\* empty window has ceil(L / (chunk_size - chunk_overlap)) chunk rows, the
\* same chunk_count, and the chunk_index values 0..n-1; for L = 1000 with
\* size 400 and overlap 50 that number is 3.
C29_ChunkCountIsCeiling ==
    /\ Ceil(1000, 400 - 50) = 3
    /\ (doc.status = "INDEXED" /\ chunker.pc = "returned" /\ NoEmptyWindow) =>
           LET n == Ceil(Len(chunker.cleaned), Stride)
           IN  /\ Cardinality(chunkRows) = n
               /\ doc.chunk_count = n
               /\ ChunkIndexes(chunkRows) = 0..(n - 1)

\* Overlapping windows: three characters in two windows of two, indexed.
C29_Witness ==
    /\ doc.status = "INDEXED"
    /\ chunker.pc = "returned"
    /\ NoEmptyWindow
    /\ chunker.chunk_overlap >= 1
    /\ Len(chunker.cleaned) = 3
    /\ Cardinality(chunkRows) = 3
    /\ doc.chunk_count = 3

\* ------------------------------------------------------------------------
\* C30
\* ------------------------------------------------------------------------
\* A step of index_document: from its fetch of the row to the end of its
\* except block or its return.
IndexDocumentStep(w) ==
    /\ workers[w].pc \in {"fetch", "download", "process", "persist", "handler"}
    /\ workers'[w] # workers[w]

\* C30: no step of index_document, on the way to success or on any failure
\* path, changes the document's source blob.
C30_IndexDocumentKeepsBlob ==
    [][\A w \in WorkerIds : IndexDocumentStep(w) => blob' = blob]_vars

\* A call has ended in its except block with the failure recorded, and the
\* blob is there for the retry.
C30_Witness ==
    \E w \in WorkerIds :
        /\ workers[w].pc = "task_except"
        /\ workers[w].exc = S3Error
        /\ doc.status = "FAILED"
        /\ blob = "present"

\* ------------------------------------------------------------------------
\* C31
\* ------------------------------------------------------------------------
LastAttempt == attempt.retries = max_retries

PermanentlyFailed(d) ==
    /\ d.status = "FAILED"
    /\ Len(d.error_message) >= 1
    /\ d.error_message[1] = PERMANENT_FAILURE_PREFIX

\* C31: in the failing run with request.retries = max_retries the blob is
\* asked to be deleted only once FAILED with the PERMANENT_FAILURE: message is
\* saved, a failed status write leaves the blob as it was, and the run ends,
\* whatever failed in between, raising and without sending the task again.
C31_PermanentFailureOrder ==
    /\ [](LastAttempt =>
            /\ attempt.delete_called => (attempt.saved /\ PermanentlyFailed(attempt.doc))
            /\ attempt.blob # attempt.blob_before => attempt.delete_called
            /\ ~attempt.saved => attempt.blob = attempt.blob_before
            /\ attempt.pc = "ended" =>
                   (attempt.outcome = "FAILURE" /\ attempt.enqueued = 0))
    /\ (LastAttempt ~> attempt.pc = "ended")

\* The last run ended raising, the failure saved, though the deletion met an
\* error; the blob is still there.
C31_Witness ==
    /\ LastAttempt
    /\ attempt.pc = "ended"
    /\ attempt.outcome = "FAILURE"
    /\ attempt.saved
    /\ attempt.delete_called
    /\ attempt.blob = "present"

\* C32: once index_document has returned or raised, the scratch file it
\* created is gone unless its removal failed, and the finally block leaves
\* the return value and the propagating exception as they were.
CallEnded == attempt.pc = "ended"

C32_ScratchFileRemoved ==
    /\ [](CallEnded => (attempt.tmp = "present" => attempt.unlink_failed))
    /\ [][attempt.pc = "finally" =>
              /\ attempt'.result = attempt.result
              /\ attempt'.raised = attempt.raised
              /\ attempt'.db = attempt.db]_vars

C32_Witness ==
    /\ CallEnded
    /\ attempt.tmp = "removed"
    /\ attempt.raised # NoExc

\* C33: called for an id without a Document row, index_document raises
\* Document.DoesNotExist at once: nothing is written to the database, the
\* object store is not called and no scratch file is created.
RowMissing == ~attempt.before.doc.exists

C33_MissingRowRaisesAtOnce ==
    (RowMissing /\ attempt.pc # "get") =>
        /\ CallEnded
        /\ attempt.raised = DoesNotExist
        /\ ~attempt.result
        /\ attempt.writes = <<>>
        /\ attempt.db = attempt.before
        /\ attempt.txns = 0
        /\ attempt.store_calls = {}
        /\ attempt.tmp = "none"

C33_Witness ==
    /\ RowMissing
    /\ CallEnded
    /\ attempt.raised = DoesNotExist

\* C34: index_document writes status alone for PROCESSING, chunk_count and
\* status on success, status and error_message on failure, and no other
\* column; error_message is never emptied, so a document indexed after a
\* failed attempt keeps the message of that attempt.
WritesOfIndexDocument ==
    {Write({"status"}, "PROCESSING"),
     Write({"chunk_count", "status"}, "INDEXED"),
     Write({"status", "error_message"}, "FAILED")}

Written == UNION {attempt.writes[i].fields : i \in DOMAIN attempt.writes}

C34_OnlyNamedColumnsWritten ==
    LET row == attempt.db.doc
        old == attempt.before.doc
    IN  /\ \A i \in DOMAIN attempt.writes : attempt.writes[i] \in WritesOfIndexDocument
        /\ \A c \in Columns : row[c] # old[c] => c \in Written
        /\ row.exists = old.exists
        /\ row.chunk_count # old.chunk_count => row.status = "INDEXED"
        /\ row.error_message # old.error_message =>
               (row.status = "FAILED" /\ row.error_message # <<>>)
        /\ row.status = "INDEXED" => row.error_message = old.error_message
        /\ attempt.txn => attempt.work.doc.error_message = old.error_message

C34_Witness ==
    /\ CallEnded
    /\ attempt.db.doc.status = "INDEXED"
    /\ attempt.before.doc.status = "FAILED"
    /\ attempt.db.doc.error_message # <<>>

\* C35: no transaction is open while index_document downloads, extracts,
\* chunks or embeds; the one transaction of a call spans the chunk inserts
\* and the chunk_count/status write, which are committed together or not at
\* all.
InsideAtomic == attempt.pc \in {"insert", "save", "exit_atomic"}

C35_OneTransactionAroundPersist ==
    /\ attempt.txn <=> InsideAtomic
    /\ attempt.txns <= 1
    /\ attempt.txn => attempt.db.rows = attempt.before.rows
    /\ attempt.txn => attempt.db.doc.status = "PROCESSING"
    /\ attempt.db.rows # {} <=> attempt.db.doc.status = "INDEXED"
    /\ attempt.db.doc.status = "INDEXED" =>
           /\ ChunkIndexes(attempt.db.rows) = 0..(attempt.n - 1)
           /\ attempt.db.doc.chunk_count = attempt.n

C35_Witness ==
    /\ attempt.pc = "exit_atomic"
    /\ attempt.txn
    /\ attempt.exc # NoExc
    /\ attempt.work.rows # {}
    /\ attempt.db.rows = {}

\* C36: when anything fails in perform_create after the blob was uploaded,
\* the blob is deleted, no Document row of the upload remains, no indexing
\* task is scheduled and the exception is raised; when the upload itself
\* fails no Document row is created.
RequestEnded == request.pc = "ended"

C36_FailedUploadLeavesNothing ==
    (RequestEnded /\ request.failed) =>
        /\ request.raised # NoExc
        /\ ~request.committed.exists
        /\ request.scheduled = 0
        /\ request.uploaded => request.blob = "deleted"

\* The part of C36 that the code keeps: a failure is always raised, a failed
\* upload leaves no row, and a request that fails before its commit leaves no
\* row and no scheduled task.
C36_FailureRaisedAndNotScheduled ==
    (RequestEnded /\ request.failed) =>
        /\ request.raised # NoExc
        /\ request.scheduled = 0
        /\ ~request.uploaded => (~request.committed.exists /\ request.blob = "absent")
        /\ request.raised # BrokerError => ~request.committed.exists

\* C37: with the indexing task of a document executed more than once, chunk
\* rows exist only while the document is INDEXED: no committed state has the
\* document PENDING, PROCESSING or FAILED together with chunk rows.
C37_ChunkRowsOnlyWhileIndexed ==
    (doc.exists /\ doc.status \in {"PENDING", "PROCESSING", "FAILED"})
        => chunkRows = {}

\* C38: a document whose status is INDEXED has its source blob in the object
\* store, under any interleaving of duplicate deliveries of its task.
C38_IndexedDocumentHasBlob ==
    (doc.exists /\ doc.status = "INDEXED") => blob = "present"

====
